---------------------------- MODULE Spec2Model ----------------------------
(***************************************************************************)
(* A model of the Arm(R) Ethos(TM)-U NPU legalization passes of            *)
(* python/tvm/relay/backend/contrib/ethosu/legalize.py.                    *)
(*                                                                         *)
(* Relay expressions are records [op, args, attrs]; a rewriter callback is *)
(* an operator from the matched call to its replacement.  Real numbers     *)
(* (quantization scales, activation values) are exact rationals <<n, d>>   *)
(* or fixed-point integers in units of 1/FixedPoint.                       *)
(***************************************************************************)
EXTENDS Integers, Sequences, FiniteSets, TLC

VARIABLES
    pc,          \* which operation is being applied, and whether it returned
    split,       \* SplitRewriter: the matched split call
    split_out,   \* SplitRewriter: the expression the callback returned
    lut_args,    \* get_lut_from_func: its arguments
    lut_values,  \* get_lut_from_func: the list it returned
    bin_call,    \* BinaryElementwiseRewriter: the matched composite call
    bin_out,     \* BinaryElementwiseRewriter: what the callback returned
    mean_call,   \* MeanRewriter: the matched composite call
    mean_out,    \* MeanRewriter: what the callback returned
    mod,         \* LegalizeEthosU: the IRModule, updated in place
    mod_before,  \* LegalizeEthosU: the module as it was when the caller passed it
    pass_idx,    \* LegalizeEthosU: the next pass of the sequence, 1..19
    run,         \* how many times the caller has invoked LegalizeEthosU
    error,       \* the exception that aborted the run, if any
    passes_run,  \* the passes this invocation of LegalizeEthosU has called so far
    perm_order,  \* the order the passes are applied in, when it is not the code's
    cb_rw,       \* one rewriter's callback on its own: the rewriter
    cb_call,     \* ... the call its pattern matched
    cb_out       \* ... what the callback returned or raised

split_vars == <<split, split_out>>
lut_vars == <<lut_args, lut_values>>
bin_vars == <<bin_call, bin_out>>
mean_vars == <<mean_call, mean_out>>
legalize_vars == <<mod, mod_before, pass_idx, run, error, passes_run, perm_order>>
cb_vars == <<cb_rw, cb_call, cb_out>>
vars == <<pc, split_vars, lut_vars, bin_vars, mean_vars, legalize_vars, cb_vars>>

(***************************************************************************)
(* Bounds of the model.                                                    *)
(***************************************************************************)
\* largest extent of a tensor axis given to the split legalizer
MaxExtent == 5
\* largest rank of a tensor given to the split legalizer
MaxSplitRank == 2

(***************************************************************************)
(* Generic helpers.                                                        *)
(***************************************************************************)
Min2(a, b) == IF a <= b THEN a ELSE b
Max2(a, b) == IF a >= b THEN a ELSE b

\* Python's list(range(start, stop, step)) for step > 0
PyRange(start, stop, step) ==
    LET n == IF stop <= start THEN 0 ELSE ((stop - start) + step - 1) \div step
    IN  [i \in 1..n |-> start + (i - 1) * step]

\* Python's [v] * n
Repeat(v, n) == [i \in 1..n |-> v]

\* a Relay expression node
Node(op, args, attrs) == [op |-> op, args |-> args, attrs |-> attrs]

\* the value of the variables of an operation that is not being applied
Idle == <<>>
IdleSplit == split = Idle /\ split_out = Idle
IdleLut == lut_args = Idle /\ lut_values = Idle
IdleBin == bin_call = Idle /\ bin_out = Idle
IdleMean == mean_call = Idle /\ mean_out = Idle
IdleLegalize ==
    /\ mod = Idle /\ mod_before = Idle /\ pass_idx = 0 /\ run = 0 /\ error = Idle
    /\ passes_run = Idle /\ perm_order = Idle
IdleCb == cb_rw = "" /\ cb_call = Idle /\ cb_out = Idle

(***************************************************************************)
(* Types of expressions.  The rewriters run with require_type=True, so     *)
(* every node carries a checked type; the type relations of the operators  *)
(* live outside legalize.py.                                               *)
(***************************************************************************)
\* a free variable of a function, with its annotated type
Var(name, shape, dtype) ==
    Node("var", <<>>, [name |-> name, shape |-> shape, dtype |-> dtype])

\* relay.reshape(data, newshape), newshape without special values
relay_reshape(data, newshape) == Node("reshape", <<data>>, [newshape |-> newshape])

\* relay.strided_slice(data, begin, end), unit strides, slice_mode "end"
relay_strided_slice(data, begin, end) ==
    Node("strided_slice", <<data>>, [begin |-> begin, end |-> end])

\* checked_type.shape of an expression
RECURSIVE checked_shape(_)
checked_shape(e) ==
    CASE e.op = "var" -> e.attrs.shape
      [] e.op = "reshape" -> e.attrs.newshape
      [] e.op = "composite" -> e.attrs.params.ofm.shape
      [] e.op = "strided_slice" ->
            [a \in 1..Len(e.attrs.begin) |-> e.attrs.end[a] - e.attrs.begin[a]]
      \* section index of a split into k equal sections, or of a tuple
      [] e.op = "TupleGetItem" ->
            IF e.args[1].op = "Tuple" THEN checked_shape(e.args[1].args[e.attrs.index + 1])
            ELSE LET in_shape == checked_shape(e.args[1].args[1])
                     ax == e.args[1].attrs.axis + 1
                     k == e.args[1].attrs.indices_or_sections.sections
                 IN  [in_shape EXCEPT ![ax] = in_shape[ax] \div k]
      \* an elementwise hardware operator keeps the shape of its first input
      [] e.op \in {"ethosu_binary_elementwise", "ethosu_unary_elementwise",
                   "ethosu_identity"} -> checked_shape(e.args[1])
      [] OTHER -> <<>>

\* a call of a function tagged Composite = family, whose body the
\* family's params class reads as params
Composite(family, args, params) ==
    Node("composite", args, [family |-> family, params |-> params])

\* what a callback that raises UnsupportedLayout(layout) leaves behind
Raise(layout) == Node("raise", <<>>, [error |-> "UnsupportedLayout", layout |-> layout])
\* what a failed dictionary lookup d[key] leaves behind
RaiseKeyError(key) == Node("raise", <<>>, [error |-> "KeyError", layout |-> key])
IsRaise(e) == e.op = "raise"

\* checked_type.dtype of an expression
RECURSIVE checked_dtype(_)
checked_dtype(e) ==
    CASE e.op = "var" -> e.attrs.dtype
      [] e.op = "const" -> e.attrs.dtype
      [] e.op = "composite" -> e.attrs.params.ofm.dtype
      [] e.op \in {"ethosu_binary_elementwise", "ethosu_depthwise_conv2d"}
            /\ "ofm_dtype" \in DOMAIN e.attrs -> e.attrs.ofm_dtype
      [] e.op = "raise" -> ""
      [] Len(e.args) = 0 -> ""
      [] OTHER -> checked_dtype(e.args[1])

\* the mutant of channels_map_keys that also accepts channel-first
channels_map_keys_with_nchw == {"NHWC", "NCHW"}

\* the channels_map every callback tests: only NHWC is accepted
channels_map_keys == {"NHWC"}

(***************************************************************************)
(* SplitRewriter (legalize.py 39-109).  Axes are 0-based as in the source; *)
(* a shape s is a sequence, so axis a is s[a + 1].                         *)
(***************************************************************************)
\* the mutant of get_section_begin_coords that forgets the leading 0
get_section_begin_coords_no_zero(s) ==
    LET indices_or_sections == s.attrs.indices_or_sections
        input_shape == checked_shape(s.args[1])
        split_axis == s.attrs.axis
    IN  IF indices_or_sections.is_array
        THEN indices_or_sections.indices
        ELSE LET split_axis_len == input_shape[split_axis + 1]
                 section_length == split_axis_len \div indices_or_sections.sections
             IN  PyRange(0, split_axis_len, section_length)

get_section_begin_coords(s) ==
    LET indices_or_sections == s.attrs.indices_or_sections
        input_shape == checked_shape(s.args[1])
        split_axis == s.attrs.axis
    IN  IF indices_or_sections.is_array
        THEN <<0>> \o indices_or_sections.indices
        ELSE LET split_axis_len == input_shape[split_axis + 1]
                 section_length == split_axis_len \div indices_or_sections.sections
             IN  PyRange(0, split_axis_len, section_length)

SplitRewriter_callback(post) ==
    LET split_input == post.args[1]
        input_shape == checked_shape(split_input)
        section_begins_in_split_axis == get_section_begin_coords(post)
        n == Len(section_begins_in_split_axis)
        split_begins == [i \in 1..n |->
            [a \in 1..Len(input_shape) |->
                IF a = post.attrs.axis + 1 THEN section_begins_in_split_axis[i] ELSE 0]]
        split_ends0 == [i \in 1..n |->
            [a \in 1..Len(input_shape) |->
                IF a = post.attrs.axis + 1 THEN section_begins_in_split_axis[i]
                ELSE input_shape[a]]]
        \* split_ends[1:] then append the shape itself
        split_ends == Tail(split_ends0) \o <<input_shape>>
        \* zip stops at the shorter list
        m == Min2(Len(split_begins), Len(split_ends))
        strided_slices == [i \in 1..m |->
            relay_strided_slice(split_input, split_begins[i], split_ends[i])]
    IN  Node("Tuple", strided_slices, [n |-> m])

(***************************************************************************)
(* The split calls the legalizer is applied to.                            *)
(***************************************************************************)
SplitShapes ==
    UNION {[1..r -> 1..MaxExtent] : r \in 1..MaxSplitRank}

\* strictly ascending cut indices strictly inside (0, L), as sequences
RECURSIVE SetToSeq(_)
SetToSeq(S) ==
    IF S = {} THEN <<>>
    ELSE LET lo == CHOOSE x \in S : \A y \in S : x <= y
         IN  <<lo>> \o SetToSeq(S \ {lo})

CutIndices(L) == {SetToSeq(S) : S \in (SUBSET (1..(L - 1))) \ {{}}}

SplitSpecs(L) ==
    {[is_array |-> TRUE, indices |-> c, sections |-> 0] : c \in CutIndices(L)}
    \cup {[is_array |-> FALSE, indices |-> <<>>, sections |-> k] : k \in 1..L}

relay_split(data, indices_or_sections, axis) ==
    Node("split", <<data>>, [indices_or_sections |-> indices_or_sections, axis |-> axis])

SplitCalls ==
    {relay_split(Var("x", s, "int8"), ios, a) :
        s \in SplitShapes, a \in 0..(MaxSplitRank - 1),
        ios \in UNION {SplitSpecs(L) : L \in 1..MaxExtent}}

ValidSplit(c) ==
    /\ c.attrs.axis < Len(checked_shape(c.args[1]))
    /\ c.attrs.indices_or_sections \in SplitSpecs(checked_shape(c.args[1])[c.attrs.axis + 1])

InitSplit ==
    /\ pc = "split"
    /\ split \in {c \in SplitCalls : ValidSplit(c)}
    /\ split_out = Idle
    /\ IdleLut /\ IdleBin /\ IdleMean /\ IdleLegalize /\ IdleCb

SplitCallback ==
    /\ pc = "split"
    /\ split_out' = SplitRewriter_callback(split)
    /\ pc' = "split_done"
    /\ UNCHANGED <<split, lut_vars, bin_vars, mean_vars, legalize_vars, cb_vars>>

NextSplit == SplitCallback

SpecSplit == InitSplit /\ [][NextSplit]_vars

(***************************************************************************)
(* get_lut_from_func and the activation functions (legalize.py 128-224).   *)
(* A real x is the exact rational <<n, d>>, d > 0; an activation value is  *)
(* a fixed-point integer in units of 1/FixedPoint.                         *)
(***************************************************************************)
FixedPoint == 2^16

\* np.iinfo(np.int8).min and .max
qmin == -128
qmax == 127

\* util.round_away_zero of the rational p/q, q > 0: nearest integer, ties
\* away from zero
round_away_zero(p, q) ==
    IF p >= 0 THEN (2 * p + q) \div (2 * q)
    ELSE -((2 * (-p) + q) \div (2 * q))

\* 1 / (1 + math.exp(-x)) at x = k/4, k = -31..31, in units of 1/FixedPoint
LogisticTable ==
  << 28, 36, 47, 60, 77, 98, 126, 162, 208,
     267, 342, 439, 562, 720, 922, 1179, 1506, 1921,
     2446, 3108, 3938, 4971, 6249, 7812, 9702, 11955, 14595,
     17625, 21025, 24743, 28693, 32768, 36843, 40793, 44511, 47911,
     50941, 53581, 55834, 57724, 59287, 60565, 61598, 62428, 63090,
     63615, 64030, 64357, 64614, 64816, 64974, 65097, 65194, 65269,
     65328, 65374, 65410, 65438, 65459, 65476, 65489, 65500, 65508 >>

\* math.tanh(x) at x = k/4, k = -31..31, in units of 1/FixedPoint
TanhTable ==
  << -65536, -65536, -65536, -65536, -65536, -65536, -65536, -65535, -65535,
     -65534, -65532, -65530, -65526, -65520, -65509, -65492, -65464, -65417,
     -65339, -65212, -65003, -64659, -64096, -63179, -61694, -59320, -55593,
     -49912, -41625, -30285, -16051, 0, 16051, 30285, 41625, 49912,
     55593, 59320, 61694, 63179, 64096, 64659, 65003, 65212, 65339,
     65417, 65464, 65492, 65509, 65520, 65526, 65530, 65532, 65534,
     65535, 65535, 65536, 65536, 65536, 65536, 65536, 65536, 65536 >>

\* x in quarters; every x the model computes is a whole number of quarters
Quarters(x) == (4 * x[1]) \div x[2]

\* math.tanh: to the precision of FixedPoint, tanh(x) is 1 from x = 8 on
math_tanh(x) ==
    IF Quarters(x) <= -32 THEN -FixedPoint
    ELSE IF Quarters(x) >= 32 THEN FixedPoint
    ELSE TanhTable[Quarters(x) + 32]

\* the mutant of sigmoid_calc_func that returns the lower saturation value
\* above the upper limit
sigmoid_calc_func_low_above(x) ==
    IF x[1] <= (-8) * x[2] THEN 0
    ELSE IF x[1] >= 8 * x[2] THEN 0
    ELSE LogisticTable[Quarters(x) + 32]

sigmoid_calc_func(x) ==
    LET upper_limit == 8
        lower_limit == -8
    IN  IF x[1] <= lower_limit * x[2] THEN 0
        ELSE IF x[1] >= upper_limit * x[2] THEN FixedPoint
        ELSE LogisticTable[Quarters(x) + 32]

\* func(x_real) for the two calc_func values the rewriters pass
calc_func(func, x) ==
    IF func = "TANH" THEN math_tanh(x) ELSE sigmoid_calc_func(x)

\* the mutant of clamp that does not clamp
clamp_none(v) == v

\* min(qmax, max(qmin, lut_result))
clamp(v) == Min2(qmax, Max2(qmin, v))

\* the mutant of get_lut_from_func that adds the input zero-point
get_lut_from_func_zp_added(ifm_scale, ifm_zp, ofm_scale, ofm_zp, func) ==
    [i \in 1..(qmax + 1 - qmin) |->
        LET x == qmin + (i - 1)
            x_real == <<ifm_scale[1] * (x + ifm_zp), ifm_scale[2]>>
            out_real == calc_func(func, x_real)
            num == ofm_zp * FixedPoint * ofm_scale[1] + out_real * ofm_scale[2]
            den == FixedPoint * ofm_scale[1]
            lut_result == round_away_zero(num, den)
        IN  clamp(lut_result)]

get_lut_from_func(ifm_scale, ifm_zp, ofm_scale, ofm_zp, func) ==
    [i \in 1..(qmax + 1 - qmin) |->
        LET x == qmin + (i - 1)
            x_real == <<ifm_scale[1] * (x - ifm_zp), ifm_scale[2]>>
            out_real == calc_func(func, x_real)
            \* ofm_zp + out_real / ofm_scale as one fraction
            num == ofm_zp * FixedPoint * ofm_scale[1] + out_real * ofm_scale[2]
            den == FixedPoint * ofm_scale[1]
            lut_result == round_away_zero(num, den)
        IN  clamp(lut_result)]

\* the arguments get_lut_from_func is applied to
IfmScales == {<<1, 4>>, <<1, 2>>, <<1, 1>>, <<2, 1>>}
OfmScales == {<<1, 256>>, <<1, 128>>, <<1, 1>>, <<3, 1>>}
ZeroPoints == {-128, -3, 0, 5, 127}
CalcFuncs == {"TANH", "SIGMOID"}

InitLut ==
    /\ pc = "lut"
    /\ lut_args \in [ifm_scale : IfmScales, ifm_zp : ZeroPoints,
                     ofm_scale : OfmScales, ofm_zp : ZeroPoints, func : CalcFuncs]
    /\ lut_values = Idle
    /\ IdleSplit /\ IdleBin /\ IdleMean /\ IdleLegalize /\ IdleCb

GetLutFromFunc ==
    /\ pc = "lut"
    /\ lut_values' = get_lut_from_func(lut_args.ifm_scale, lut_args.ifm_zp,
                                       lut_args.ofm_scale, lut_args.ofm_zp,
                                       lut_args.func)
    /\ pc' = "lut_done"
    /\ UNCHANGED <<lut_args, split_vars, bin_vars, mean_vars, legalize_vars, cb_vars>>

NextLut == GetLutFromFunc

SpecLut == InitLut /\ [][NextLut]_vars

(***************************************************************************)
(* BinaryElementwiseRewriter (legalize.py 545-663).                        *)
(* A matched call is [args, params]: args are the two argument             *)
(* expressions, params what params_class(post.op.body) extracted from the  *)
(* composite body: reversed_operands, operator_type, the ofm and one       *)
(* tensor description per body operand.                                    *)
(***************************************************************************)
\* the mutant of reshape_input that pads by appending the size-1 axes
reshape_input_append(inputs) ==
    [k \in 1..Len(inputs) |->
        LET in_shape == inputs[k].shape
        IN  IF Len(in_shape) < 4
            THEN relay_reshape(inputs[k].tensor, in_shape \o Repeat(1, 4 - Len(in_shape)))
            ELSE inputs[k].tensor]

reshape_input(inputs) ==
    [k \in 1..Len(inputs) |->
        LET in_shape == inputs[k].shape
        IN  IF Len(in_shape) < 4
            THEN LET pad_size == 4 - Len(in_shape)
                     new_shape == Repeat(1, pad_size) \o in_shape
                 IN  relay_reshape(inputs[k].tensor, new_shape)
            ELSE inputs[k].tensor]

\* the mutant of reshape_output that restores one axis too few
reshape_output_one_short(output, ifm_input_shape) ==
    IF Len(ifm_input_shape) = 4 THEN output
    ELSE relay_reshape(output, Tail(ifm_input_shape))

\* the mutant of reshape_output that never reshapes back
reshape_output_never(output, ifm_input_shape) == output

reshape_output(output, ifm_input_shape) ==
    IF Len(ifm_input_shape) = 4 THEN output
    ELSE relay_reshape(output, ifm_input_shape)

\* the mutant of BinaryIfm that takes the call's first argument whatever the
\* reversed-operands flag
BinaryIfm_unreversed(post) ==
    LET p == post.attrs.params
    IN  [shape |-> IF p.reversed_operands THEN p.operands[2].shape ELSE p.operands[1].shape,
         q_params |-> IF p.reversed_operands THEN p.operands[2].q_params
                      ELSE p.operands[1].q_params,
         layout |-> IF p.reversed_operands THEN p.operands[2].layout
                    ELSE p.operands[1].layout,
         tensor |-> post.args[1]]

\* params.ifm and params.ifm2 with .tensor set (legalize.py 616-617)
BinaryIfm(post) ==
    LET p == post.attrs.params
    IN  [shape |-> IF p.reversed_operands THEN p.operands[2].shape ELSE p.operands[1].shape,
         q_params |-> IF p.reversed_operands THEN p.operands[2].q_params
                      ELSE p.operands[1].q_params,
         layout |-> IF p.reversed_operands THEN p.operands[2].layout
                    ELSE p.operands[1].layout,
         tensor |-> IF p.reversed_operands THEN post.args[2] ELSE post.args[1]]

BinaryIfm2(post) ==
    LET p == post.attrs.params
    IN  [shape |-> IF p.reversed_operands THEN p.operands[1].shape ELSE p.operands[2].shape,
         q_params |-> IF p.reversed_operands THEN p.operands[1].q_params
                      ELSE p.operands[2].q_params,
         layout |-> IF p.reversed_operands THEN p.operands[1].layout
                    ELSE p.operands[2].layout,
         tensor |-> IF p.reversed_operands THEN post.args[1] ELSE post.args[2]]

BinaryElementwiseRewriter_callback(post) ==
    LET params == post.attrs.params
        ifm == BinaryIfm(post)
        ifm2 == BinaryIfm2(post)
        activation == IF params.activation.present THEN "CLIP" ELSE "NONE"
        clip_min == IF params.activation.present THEN params.activation.a_min ELSE 0
        clip_max == IF params.activation.present THEN params.activation.a_max ELSE 0
        inputs == reshape_input(<<ifm, ifm2>>)
        ethosu_binary_elementwise ==
            Node("ethosu_binary_elementwise", <<inputs[1], inputs[2]>>,
                 [lut |-> <<>>,
                  operator_type |-> params.operator_type,
                  ifm_scale |-> ifm.q_params.scale_f32,
                  ifm_zero_point |-> ifm.q_params.zero_point,
                  ifm2_scale |-> ifm2.q_params.scale_f32,
                  ifm2_zero_point |-> ifm2.q_params.zero_point,
                  ofm_scale |-> params.ofm.q_params.scale_f32,
                  ofm_zero_point |-> params.ofm.q_params.zero_point,
                  ifm_channels |-> ifm.shape[Len(ifm.shape)],
                  ifm2_channels |-> ifm2.shape[Len(ifm2.shape)],
                  reversed_operands |-> params.reversed_operands,
                  ofm_dtype |-> params.ofm.dtype,
                  activation |-> activation,
                  clip_min |-> clip_min,
                  clip_max |-> clip_max,
                  ifm_layout |-> ifm.layout,
                  ifm2_layout |-> ifm2.layout,
                  ofm_layout |-> params.ofm.layout])
    IN  IF params.ofm.layout \notin channels_map_keys
        THEN Raise(params.ofm.layout)
        ELSE reshape_output(ethosu_binary_elementwise, ifm.shape)

(***************************************************************************)
(* The binary elementwise composites the legalizer is applied to.          *)
(***************************************************************************)
\* largest extent of an axis of a binary elementwise operand
MaxBinDim == 2

BinShapes == UNION {[1..r -> 1..MaxBinDim] : r \in 1..4}
Layouts == {"NHWC", "NCHW"}
NoActivation == [present |-> FALSE, a_min |-> 0, a_max |-> 0]
QParams(scale, zp) == [scale_f32 |-> scale, zero_point |-> zp]

BinaryCalls ==
    {Composite("ethos-u.add", <<Var("a", s1, "int8"), Var("b", s2, "int8")>>,
                 [operator_type |-> "ADD",
                  reversed_operands |-> r,
                  operands |-> <<[shape |-> s1, layout |-> "NHWC",
                                  q_params |-> QParams(<<1, 2>>, 0)],
                                 [shape |-> s2, layout |-> "NHWC",
                                  q_params |-> QParams(<<1, 4>>, 5)]>>,
                  ofm |-> [shape |-> IF r THEN s2 ELSE s1, layout |-> l, dtype |-> "int8",
                           q_params |-> QParams(<<1, 1>>, -3)],
                  activation |-> NoActivation]) :
        s1 \in BinShapes, s2 \in BinShapes, r \in BOOLEAN, l \in Layouts}

InitBinary ==
    /\ pc = "binary"
    /\ bin_call \in BinaryCalls
    /\ bin_out = Idle
    /\ IdleSplit /\ IdleLut /\ IdleMean /\ IdleLegalize /\ IdleCb

BinaryCallback ==
    /\ pc = "binary"
    /\ bin_out' = BinaryElementwiseRewriter_callback(bin_call)
    /\ pc' = "binary_done"
    /\ UNCHANGED <<bin_call, split_vars, lut_vars, mean_vars, legalize_vars, cb_vars>>

NextBinary == BinaryCallback

SpecBinary == InitBinary /\ [][NextBinary]_vars

(***************************************************************************)
(* MeanRewriter (legalize.py 1022-1167).                                   *)
(* A matched call is [args, params]; params is what MeanParams extracted   *)
(* from the composite body.  Axes are 0-based lists as in the source.      *)
(***************************************************************************)
\* the kernel height above which axes [1, 2] are flattened
MaxKernelHeight == 64

\* Python's "v in list"
In(v, list) == \E i \in 1..Len(list) : list[i] = v

\* vela_api.pack_biases is opaque: the packed constant is known by its inputs
pack_biases(biases, ifm_scale, ifm_dtype, weight_scales, ofm_scale, tanh_or_sigmoid) ==
    [biases |-> biases, ifm_scale |-> ifm_scale, ifm_dtype |-> ifm_dtype,
     weight_scales |-> weight_scales, ofm_scale |-> ofm_scale,
     is_activation_tanh_or_sigmoid |-> tanh_or_sigmoid]

\* the mutant of ConstFill that fills with zeros
ConstFill_zeros(shape, v, dtype) == [shape |-> shape, value |-> 0, dtype |-> dtype]

\* a constant tensor all of whose elements are v
ConstFill(shape, v, dtype) == [shape |-> shape, value |-> v, dtype |-> dtype]

\* the mutant of MeanAxis that shifts by the number of missing axes
MeanAxis_shift_by_rank(params) ==
    [i \in 1..Len(params.axis) |-> params.axis[i] + (4 - Len(params.ifm.shape))]

\* the axis list after "Enforce 4d input" (legalize.py 1049-1050)
MeanAxis(params) ==
    IF Len(params.ifm.shape) < 4
    THEN [i \in 1..Len(params.axis) |-> params.axis[i] + 1]
    ELSE params.axis

\* ifm_shape after "Enforce 4d input" (legalize.py 1049-1054)
MeanIfmShape4d(params) ==
    IF Len(params.ifm.shape) < 4
    THEN IF Len(params.ifm.shape) = 3
         THEN <<1, params.height, params.width, params.ifm.shape[3]>>
         ELSE <<1, params.height, params.width, 1>>
    ELSE params.ifm.shape

\* axis == [1, 2]: list equality
MeanIsAxis12(axis) == axis = <<1, 2>>

\* the mutant of MeanSameQuantization that needs only one of the two equalities
MeanSameQuantization_either(params) ==
    \/ params.ifm.q_params.scale_f32 = params.ofm.q_params.scale_f32
    \/ params.ifm.q_params.zero_point = params.ofm.q_params.zero_point

\* the elif condition (legalize.py 1119-1122)
MeanSameQuantization(params) ==
    /\ params.ifm.q_params.scale_f32 = params.ofm.q_params.scale_f32
    /\ params.ifm.q_params.zero_point = params.ofm.q_params.zero_point

\* the mutant of MeanMulScale that applies the correction to odd n as well
MeanMulScale_eps_always(n) == <<256 * (n + 1), 256 * (n + 1) * n - 1>>

\* Case 1: ifm2_scale = 1 / (n - eps) as a fraction, with
\* eps = 1 / (256 * (n + 1)) if n % 2 == 0 else 0 (legalize.py 1098, 1109)
MeanMulScale(n) ==
    IF n % 2 = 0
    THEN <<256 * (n + 1), 256 * (n + 1) * n - 1>>
    ELSE <<1, n>>

\* the mutant of MeanBias that leaves the sign out
MeanBias_positive(params, filter_height, filter_width) ==
    params.ifm.q_params.zero_point * filter_height * filter_width

\* Case 3: bias (legalize.py 1138)
MeanBias(params, filter_height, filter_width) ==
    (-1) * params.ifm.q_params.zero_point * filter_height * filter_width

\* the mutant of MeanAvgPooling that passes the real zero-points on
MeanAvgPooling_real_zero_points(reduced_op, params, filter_height, filter_width, out_channels) ==
    Node("ethosu_pooling", <<reduced_op>>,
         [lut |-> <<>>,
          pooling_type |-> "AVG",
          ifm_scale |-> params.ifm.q_params.scale_f32,
          ifm_zero_point |-> params.ifm.q_params.zero_point,
          ofm_scale |-> params.ofm.q_params.scale_f32,
          ofm_zero_point |-> params.ofm.q_params.zero_point,
          pool_shape |-> <<filter_height, filter_width>>,
          ofm_channels |-> out_channels,
          rounding_mode |-> "TRUNCATE"])

\* Case 2: the ethosu_pooling call (legalize.py 1123-1134)
MeanAvgPooling(reduced_op, params, filter_height, filter_width, out_channels) ==
    Node("ethosu_pooling", <<reduced_op>>,
         [lut |-> <<>>,
          pooling_type |-> "AVG",
          ifm_scale |-> params.ifm.q_params.scale_f32,
          ifm_zero_point |-> 0,
          ofm_scale |-> params.ofm.q_params.scale_f32,
          ofm_zero_point |-> 0,
          pool_shape |-> <<filter_height, filter_width>>,
          ofm_channels |-> out_channels,
          rounding_mode |-> "TRUNCATE"])

MeanRewriter_callback(post) ==
    LET params == post.attrs.params
        ofm_shape == params.ofm.shape
        lut == <<>>
        axis == MeanAxis(params)
        ifm_shape1 == MeanIfmShape4d(params)
        reduced_op1 == IF Len(params.ifm.shape) < 4
                       THEN relay_reshape(post.args[1], ifm_shape1)
                       ELSE post.args[1]
        filter_height1 == IF In(1, axis) THEN ifm_shape1[2] ELSE 1
        filter_width1 == IF In(2, axis) THEN ifm_shape1[3] ELSE 1
        in_channels == ifm_shape1[4]
        out_channels == ifm_shape1[4]
        flatten == MeanIsAxis12(axis) /\ filter_height1 > MaxKernelHeight
        ifm_shape == IF flatten
                     THEN <<ifm_shape1[1], 1, filter_height1 * filter_width1, in_channels>>
                     ELSE ifm_shape1
        filter_width == IF flatten THEN filter_height1 * filter_width1 ELSE filter_width1
        filter_height == IF flatten THEN 1 ELSE filter_height1
        reduced_op2 == IF flatten THEN relay_reshape(reduced_op1, ifm_shape) ELSE reduced_op1
        weight_values == ConstFill(<<out_channels, filter_height, filter_width, in_channels>>,
                                   1, params.ifm.dtype)
        \* Case 1
        depthwise_a ==
            Node("ethosu_depthwise_conv2d", <<reduced_op2>>,
                 [weight |-> weight_values,
                  scale_bias |-> pack_biases(ConstFill(<<ifm_shape[4]>>, 0, "float"),
                                             params.ifm.q_params.scale_f32, params.ifm.dtype,
                                             <<1, 1>>, params.ofm.q_params.scale_f32, FALSE),
                  lut |-> lut,
                  ifm_scale |-> params.ifm.q_params.scale_f32,
                  ifm_zero_point |-> params.ifm.q_params.zero_point,
                  weight_zero_point |-> 0,
                  ofm_scale |-> params.ofm.q_params.scale_f32,
                  ofm_zero_point |-> params.ofm.q_params.zero_point,
                  kernel_shape |-> <<filter_height, filter_width>>,
                  ofm_channels |-> out_channels,
                  ofm_dtype |-> "int16"])
        n == filter_height * filter_width
        ifm2_scale == MeanMulScale(n)
        case_a ==
            Node("ethosu_binary_elementwise",
                 <<depthwise_a, Node("const", <<>>, ConstFill(<<1, 1, 1, 1>>, 1, "int16"))>>,
                 [lut |-> lut,
                  operator_type |-> "MUL",
                  ifm_scale |-> params.ofm.q_params.scale_f32,
                  ifm_zero_point |-> params.ofm.q_params.zero_point,
                  ifm2_scale |-> ifm2_scale,
                  ifm2_zero_point |-> 0,
                  ofm_scale |-> params.ofm.q_params.scale_f32,
                  ofm_zero_point |-> params.ofm.q_params.zero_point,
                  ifm_channels |-> out_channels,
                  ifm2_channels |-> out_channels,
                  reversed_operands |-> FALSE,
                  ofm_dtype |-> "int8",
                  rounding_mode |-> "NATURAL"])
        \* Case 2
        case_b == MeanAvgPooling(reduced_op2, params, filter_height, filter_width,
                                 out_channels)
        \* Case 3
        weight_scale == <<1, filter_height * filter_width>>
        bias == MeanBias(params, filter_height, filter_width)
        case_c ==
            Node("ethosu_depthwise_conv2d", <<reduced_op2>>,
                 [weight |-> weight_values,
                  scale_bias |-> pack_biases(ConstFill(<<ifm_shape[4]>>, bias, "float"),
                                             params.ifm.q_params.scale_f32, params.ifm.dtype,
                                             weight_scale, params.ofm.q_params.scale_f32, FALSE),
                  lut |-> lut,
                  ifm_scale |-> params.ifm.q_params.scale_f32,
                  ifm_zero_point |-> 0,
                  weight_zero_point |-> 0,
                  ofm_scale |-> params.ofm.q_params.scale_f32,
                  ofm_zero_point |-> params.ofm.q_params.zero_point,
                  kernel_shape |-> <<filter_height, filter_width>>,
                  ofm_channels |-> out_channels,
                  rounding_mode |-> "NATURAL"])
        reduced_op3 == IF MeanIsAxis12(axis) /\ params.keepdims THEN case_a
                       ELSE IF MeanSameQuantization(params) THEN case_b
                       ELSE case_c
    IN  IF Len(ofm_shape) < 4 THEN relay_reshape(reduced_op3, ofm_shape) ELSE reduced_op3

(***************************************************************************)
(* The mean composites the legalizer is applied to.  MeanParams is outside *)
(* legalize.py: height and width are the extents of the H and W axes, the  *)
(* ofm shape is the type of relay's mean.                                  *)
(***************************************************************************)
MeanDims == {1, 2, MaxKernelHeight + 1}
MeanChannels == {1, 2}

MeanShapes ==
    {<<h, w>> : h \in MeanDims, w \in MeanDims}
    \cup {<<h, w, c>> : h \in MeanDims, w \in MeanDims, c \in MeanChannels}
    \cup {<<1, h, w, c>> : h \in MeanDims, w \in MeanDims, c \in MeanChannels}

\* the axis lists of the composite, in either listing order
MeanAxes(rank) ==
    IF rank < 4 THEN {<<0>>, <<1>>, <<0, 1>>, <<1, 0>>}
    ELSE {<<1>>, <<2>>, <<1, 2>>, <<2, 1>>}

MeanParams_height(shape) == IF Len(shape) \in {2, 3} THEN shape[1] ELSE shape[2]
MeanParams_width(shape) == IF Len(shape) \in {2, 3} THEN shape[2] ELSE shape[3]

\* the positions of shape whose (0-based) axis is not reduced
RECURSIVE KeptAxes(_, _, _)
KeptAxes(shape, axis, a) ==
    IF a > Len(shape) THEN <<>>
    ELSE (IF In(a - 1, axis) THEN <<>> ELSE <<shape[a]>>) \o KeptAxes(shape, axis, a + 1)

\* the shape of mean(ifm, axis, keepdims)
MeanOfmShape(shape, axis, keepdims) ==
    IF keepdims THEN [a \in 1..Len(shape) |-> IF In(a - 1, axis) THEN 1 ELSE shape[a]]
    ELSE KeptAxes(shape, axis, 1)

MeanScales == {<<1, 2>>, <<1, 4>>}
MeanZeroPoints == {0, 3}

MeanCalls ==
    {Composite("ethos-u.mean", <<Var("x", s, "int8")>>,
                 [ifm |-> [shape |-> s, dtype |-> "int8", q_params |-> QParams(is, iz)],
                  ofm |-> [shape |-> MeanOfmShape(s, ax, k), dtype |-> "int8",
                           q_params |-> QParams(os, oz)],
                  axis |-> ax,
                  keepdims |-> k,
                  height |-> MeanParams_height(s),
                  width |-> MeanParams_width(s)]) :
        s \in MeanShapes, ax \in MeanAxes(2) \cup MeanAxes(4), k \in BOOLEAN,
        is \in MeanScales, iz \in MeanZeroPoints, os \in MeanScales, oz \in MeanZeroPoints}

InitMean ==
    /\ pc = "mean"
    /\ mean_call \in {c \in MeanCalls :
                        c.attrs.params.axis \in MeanAxes(Len(c.attrs.params.ifm.shape))}
    /\ mean_out = Idle
    /\ IdleSplit /\ IdleLut /\ IdleBin /\ IdleLegalize /\ IdleCb

MeanCallback ==
    /\ pc = "mean"
    /\ mean_out' = MeanRewriter_callback(mean_call)
    /\ pc' = "mean_done"
    /\ UNCHANGED <<mean_call, split_vars, lut_vars, bin_vars, legalize_vars, cb_vars>>

NextMean == MeanCallback

SpecMean == InitMean /\ [][NextMean]_vars

(***************************************************************************)
(* The other rewriter callbacks.  post.attrs.params is what the family's   *)
(* params class extracted from the composite body.                         *)
(***************************************************************************)
\* the clip activation of a composite, as the callbacks read it
Activation(params) == IF params.activation.present THEN "CLIP" ELSE "NONE"
\* the mutant of ClipMin that drops the lower bound
ClipMin_dropped(params) == 0

ClipMin(params) == IF params.activation.present THEN params.activation.a_min ELSE 0
ClipMax(params) == IF params.activation.present THEN params.activation.a_max ELSE 0

\* np.transpose(values, perm), perm 0-based: a constant is its shape and the
\* order of its axes
np_transpose(values, perm) ==
    [shape |-> [i \in 1..Len(perm) |-> values.shape[perm[i] + 1]],
     axes |-> [i \in 1..Len(perm) |-> values.axes[perm[i] + 1]],
     dtype |-> values.dtype]

\* Python's shape[a:b]
Slice(shape, a, b) == [i \in 1..(b - a) |-> shape[a + i]]

\* Conv2DRewriter (legalize.py 254-322)
Conv2DRewriter_callback(post) ==
    LET params == post.attrs.params
        kernel_size_map_keys == {"HWIO", "OHWI", "HWOI"}
        kernel_size == IF params.weights.layout = "OHWI"
                       THEN Slice(params.weights.shape, 1, 3)
                       ELSE Slice(params.weights.shape, 0, 2)
        weight_to_ohwi_transform_map_keys == {"HWIO"}
        weights_values_ohwi == np_transpose(params.weights.values, <<3, 0, 1, 2>>)
        scale_bias == pack_biases(params.biases, params.ifm.q_params.scale_f32,
                                  params.ifm.dtype, params.weights.q_params.scale_f32,
                                  params.ofm.q_params.scale_f32,
                                  Activation(params) \in {"TANH", "SIGMOID"})
    IN  IF params.ofm.layout \notin channels_map_keys THEN Raise(params.ofm.layout)
        ELSE IF params.weights.layout \notin kernel_size_map_keys
        THEN Raise(params.weights.layout)
        ELSE IF params.weights.layout \notin weight_to_ohwi_transform_map_keys
        THEN RaiseKeyError(params.weights.layout)
        ELSE Node("ethosu_conv2d", <<post.args[1]>>,
                  [weight |-> weights_values_ohwi,
                   scale_bias |-> scale_bias,
                   lut |-> <<>>,
                   ifm_scale |-> params.ifm.q_params.scale_f32,
                   ifm_zero_point |-> params.ifm.q_params.zero_point,
                   weight_zero_point |-> params.weights.q_params.zero_point,
                   ofm_scale |-> params.ofm.q_params.scale_f32,
                   ofm_zero_point |-> params.ofm.q_params.zero_point,
                   kernel_shape |-> kernel_size,
                   ofm_channels |-> params.ofm.shape[4],
                   strides |-> params.strides,
                   padding |-> params.padding,
                   dilation |-> params.dilation,
                   activation |-> Activation(params),
                   clip_min |-> ClipMin(params),
                   clip_max |-> ClipMax(params),
                   upscale |-> "NONE",
                   ifm_layout |-> params.ifm.layout,
                   ofm_layout |-> params.ofm.layout])

\* DepthwiseConv2DRewriter (legalize.py 341-416)
DepthwiseConv2DRewriter_callback(post) ==
    LET params == post.attrs.params
        kernel_shape_map_keys == {"HWOI"}
        \* np.moveaxis(values, [0, 1, 2, 3], [1, 2, 0, 3])
        weights_values_ohwi == np_transpose(params.weights.values, <<2, 0, 1, 3>>)
        scale_bias == pack_biases(params.biases, params.ifm.q_params.scale_f32,
                                  params.ifm.dtype, params.weights.q_params.scale_f32,
                                  params.ofm.q_params.scale_f32,
                                  Activation(params) \in {"TANH", "SIGMOID"})
    IN  IF params.ofm.layout \notin channels_map_keys THEN Raise(params.ofm.layout)
        ELSE IF params.weights.layout \notin kernel_shape_map_keys
        THEN Raise(params.weights.layout)
        ELSE Node("ethosu_depthwise_conv2d", <<post.args[1]>>,
                  [weight |-> weights_values_ohwi,
                   scale_bias |-> scale_bias,
                   lut |-> <<>>,
                   ifm_scale |-> params.ifm.q_params.scale_f32,
                   ifm_zero_point |-> params.ifm.q_params.zero_point,
                   weight_zero_point |-> params.weights.q_params.zero_point,
                   ofm_scale |-> params.ofm.q_params.scale_f32,
                   ofm_zero_point |-> params.ofm.q_params.zero_point,
                   kernel_shape |-> Slice(params.weights.shape, 0, 2),
                   ofm_channels |-> params.ofm.shape[4],
                   strides |-> params.strides,
                   padding |-> params.padding,
                   dilation |-> params.dilation,
                   activation |-> Activation(params),
                   clip_min |-> ClipMin(params),
                   clip_max |-> ClipMax(params),
                   upscale |-> "NONE",
                   ifm_layout |-> params.ifm.layout,
                   ofm_layout |-> params.ofm.layout,
                   ofm_dtype |-> params.ofm.dtype])

\* PoolingRewriter (legalize.py 435-490)
PoolingRewriter_callback(post) ==
    LET params == post.attrs.params
    IN  IF params.ofm.layout \notin channels_map_keys THEN Raise(params.ofm.layout)
        ELSE Node("ethosu_pooling", <<post.args[1]>>,
                  [lut |-> <<>>,
                   pooling_type |-> params.pooling_type,
                   ifm_scale |-> params.ifm.q_params.scale_f32,
                   ifm_zero_point |-> params.ifm.q_params.zero_point,
                   ofm_scale |-> params.ofm.q_params.scale_f32,
                   ofm_zero_point |-> params.ofm.q_params.zero_point,
                   pool_shape |-> params.pool_shape,
                   ofm_channels |-> params.ofm.shape[4],
                   strides |-> params.strides,
                   padding |-> params.padding,
                   activation |-> Activation(params),
                   clip_min |-> ClipMin(params),
                   clip_max |-> ClipMax(params),
                   upscale |-> "NONE",
                   ifm_layout |-> params.ifm.layout,
                   ofm_layout |-> params.ofm.layout])

\* UnaryElementwiseRewriter (legalize.py 932-993)
UnaryElementwiseRewriter_callback(post) ==
    LET params == post.attrs.params
        is4d == Len(params.ifm.shape) = 4
        pad_size == 4 - Len(params.ifm.shape)
        unary_input_shape == IF is4d THEN params.ifm.shape
                             ELSE Repeat(1, pad_size) \o params.ifm.shape
        unary_input == IF is4d THEN post.args[1]
                       ELSE relay_reshape(post.args[1], unary_input_shape)
        ethosu_unary_elementwise ==
            Node("ethosu_unary_elementwise", <<unary_input>>,
                 [lut |-> <<>>,
                  operator_type |-> params.operator_type,
                  ifm_scale |-> params.ifm.q_params.scale_f32,
                  ifm_zero_point |-> params.ifm.q_params.zero_point,
                  ofm_scale |-> params.ofm.q_params.scale_f32,
                  ofm_zero_point |-> params.ofm.q_params.zero_point,
                  ofm_channels |-> unary_input_shape[4],
                  activation |-> Activation(params),
                  clip_min |-> ClipMin(params),
                  clip_max |-> ClipMax(params),
                  ifm_layout |-> params.ifm.layout,
                  ofm_layout |-> params.ofm.layout])
    IN  IF params.ofm.layout # "NHWC" THEN Raise(params.ofm.layout)
        ELSE IF is4d THEN ethosu_unary_elementwise
        ELSE relay_reshape(ethosu_unary_elementwise, params.ifm.shape)

\* LutActivationRewriter (legalize.py 146-184); activation_type is "TANH"
\* for TanhRewriter and "SIGMOID" for SigmoidRewriter
LutActivationRewriter_callback(post, activation_type) ==
    LET params == post.attrs.params
        output_scale == params.ofm.q_params.scale_f32
        output_zp == params.ofm.q_params.zero_point
        input_scale == params.ifm.q_params.scale_f32
        input_zp == params.ifm.q_params.zero_point
        lut_values_ == get_lut_from_func(input_scale, input_zp, output_scale, output_zp,
                                         activation_type)
    IN  Node("ethosu_identity", <<post.args[1]>>,
             [lut |-> lut_values_,
              ifm_scale |-> input_scale,
              ifm_zero_point |-> input_zp,
              ofm_scale |-> input_scale,
              ofm_zero_point |-> input_zp,
              activation |-> activation_type])

\* the mutant of IsCall that does not count a call of a composite function
IsCall_not_composite(e) ==
    e.op \notin {"var", "const", "Tuple", "TupleGetItem", "raise", "composite"}

\* isinstance(arg, tvm.relay.expr.Call)
IsCall(e) == e.op \notin {"var", "const", "Tuple", "TupleGetItem", "raise"}

\* the mutant of FilterCalls that keeps every argument
FilterCalls_keep_all(list) == list

\* Python's [x for x in list if keep(x)], for keep = IsCall
RECURSIVE FilterCalls(_)
FilterCalls(list) ==
    IF list = <<>> THEN <<>>
    ELSE (IF IsCall(Head(list)) THEN <<Head(list)>> ELSE <<>>) \o FilterCalls(Tail(list))

\* ConcatRewriter (legalize.py 1186-1209)
ConcatRewriter_callback(post) ==
    LET concat_args == FilterCalls(post.args)
        axis == post.attrs.params.axis
    IN  Node("concatenate", <<Node("Tuple", concat_args, [n |-> Len(concat_args)])>>,
             [axis |-> axis])

\* StridedSliceRewriter (legalize.py 822-845)
StridedSliceRewriter_callback(post) ==
    LET params == post.attrs.params
    IN  relay_strided_slice(post.args[1], params.begin, params.end)

\* ReshapeRewriter (legalize.py 864-879)
ReshapeRewriter_callback(post) ==
    relay_reshape(post.args[1], post.attrs.params.new_shape)

\* the mutant of NoOpRewriter_callback that wraps whatever the element type
NoOpRewriter_callback_wrap_all(pre, post) ==
    Node("ethosu_identity", <<post>>, [lut |-> <<>>])

\* NoOpRewriter (legalize.py 898-913)
NoOpRewriter_callback(pre, post) ==
    IF checked_dtype(pre) = "int32" THEN post
    ELSE Node("ethosu_identity", <<post>>, [lut |-> <<>>])

(***************************************************************************)
(* The pattern matcher: rewrite(callback, expr) of tvm.relay               *)
(* .dataflow_pattern, which is outside legalize.py.  A rewriter is known   *)
(* by its name; its pattern, match mode and callback are those of its      *)
(* class in legalize.py.                                                   *)
(***************************************************************************)
\* the mutant of Rewriters that runs the no-op guard before the extractions
Rewriters_guard_early ==
    <<"Split", "Conv2D", "DepthwiseConv2D", "MaxPooling", "AvgPooling", "Add", "Sub",
      "Mul", "Min", "Max", "Shl", "Abs", "Tanh", "Mean", "Concat", "Sigmoid",
      "NoOp", "Reshape", "StridedSlice">>

\* the rewriters in the order LegalizeEthosU runs their passes
Rewriters ==
    <<"Split", "Conv2D", "DepthwiseConv2D", "MaxPooling", "AvgPooling", "Add", "Sub",
      "Mul", "Min", "Max", "Shl", "Abs", "Tanh", "Mean", "Concat", "Sigmoid",
      "Reshape", "StridedSlice", "NoOp">>

\* the Composite attribute each rewriter's pattern asks for
composite_name(rw) ==
    CASE rw = "Conv2D" -> "ethos-u.qnn_conv2d"
      [] rw = "DepthwiseConv2D" -> "ethos-u.depthwise_conv2d"
      [] rw = "MaxPooling" -> "ethos-u.maxpool2d"
      [] rw = "AvgPooling" -> "ethos-u.avgpool2d"
      [] rw = "Add" -> "ethos-u.add"
      [] rw = "Sub" -> "ethos-u.sub"
      [] rw = "Mul" -> "ethos-u.mul"
      [] rw = "Min" -> "ethos-u.min"
      [] rw = "Max" -> "ethos-u.max"
      [] rw = "Shl" -> "ethos-u.shl"
      [] rw = "Abs" -> "ethos-u.abs"
      [] rw = "Tanh" -> "ethos-u.tanh"
      [] rw = "Mean" -> "ethos-u.mean"
      [] rw = "Concat" -> "ethos-u.concat"
      [] rw = "Sigmoid" -> "ethos-u.sigmoid"
      [] rw = "Reshape" -> "ethos-u.reshape"
      [] rw = "StridedSlice" -> "ethos-u.strided_slice"
      [] OTHER -> ""

\* the rewriters constructed with rewrite_once=True
rewrite_once(rw) ==
    rw \in {"Tanh", "Sigmoid", "StridedSlice", "Reshape", "NoOp", "Concat"}

\* the number of wildcard arguments of the pattern; 0 stands for None (any)
PatternArity(rw) ==
    CASE rw \in {"Add", "Sub", "Mul", "Min", "Max", "Shl"} -> 2
      [] rw = "Concat" -> 0
      [] OTHER -> 1

\* whether the rewriter's pattern matches at node e
Matches(rw, e) ==
    CASE rw = "Split" -> e.op = "split" /\ Len(e.args) = 1
      [] rw = "NoOp" -> e.op \in {"reshape", "strided_slice"} /\ Len(e.args) = 1
      [] OTHER -> /\ e.op = "composite"
                  /\ e.attrs.family = composite_name(rw)
                  /\ (PatternArity(rw) = 0 \/ Len(e.args) = PatternArity(rw))

\* the rewriter's callback(pre, post, node_map)
callback(rw, pre, post) ==
    CASE rw = "Split" -> SplitRewriter_callback(post)
      [] rw = "Conv2D" -> Conv2DRewriter_callback(post)
      [] rw = "DepthwiseConv2D" -> DepthwiseConv2DRewriter_callback(post)
      [] rw \in {"MaxPooling", "AvgPooling"} -> PoolingRewriter_callback(post)
      [] rw \in {"Add", "Sub", "Mul", "Min", "Max", "Shl"} ->
            BinaryElementwiseRewriter_callback(post)
      [] rw = "Abs" -> UnaryElementwiseRewriter_callback(post)
      [] rw = "Tanh" -> LutActivationRewriter_callback(post, "TANH")
      [] rw = "Sigmoid" -> LutActivationRewriter_callback(post, "SIGMOID")
      [] rw = "Mean" -> MeanRewriter_callback(post)
      [] rw = "Concat" -> ConcatRewriter_callback(post)
      [] rw = "Reshape" -> ReshapeRewriter_callback(post)
      [] rw = "StridedSlice" -> StridedSliceRewriter_callback(post)
      [] rw = "NoOp" -> NoOpRewriter_callback(pre, post)

\* the first raise among a list of rewritten arguments, in order
RECURSIVE FirstRaise(_)
FirstRaise(list) ==
    IF list = <<>> THEN <<>>
    ELSE IF IsRaise(Head(list)) THEN <<Head(list)>>
    ELSE FirstRaise(Tail(list))

RECURSIVE HasMatch(_, _)
HasMatch(rw, e) ==
    \/ Matches(rw, e)
    \/ \E i \in 1..Len(e.args) : HasMatch(rw, e.args[i])

\* one sweep in post-order that rewrites every match; an exception raised
\* by a callback ends the sweep and is the result
\* the visit of node pre once its arguments have been rewritten to new_args
VisitNode(rw, pre, new_args) ==
    IF FirstRaise(new_args) # <<>> THEN FirstRaise(new_args)[1]
    ELSE IF Matches(rw, pre) THEN callback(rw, pre, [pre EXCEPT !.args = new_args])
    ELSE [pre EXCEPT !.args = new_args]

RECURSIVE RewriteAll(_, _)
RECURSIVE RewriteArgs(_, _)
RewriteArgs(rw, args) == [i \in 1..Len(args) |-> RewriteAll(rw, args[i])]
RewriteAll(rw, pre) ==
    VisitNode(rw, pre, RewriteArgs(rw, pre.args))

\* repeat-to-fixpoint: sweep until no match is left
RECURSIVE RewriteToFixpoint(_, _)
RECURSIVE RepeatFrom(_, _)
RepeatFrom(rw, r) ==
    IF IsRaise(r) \/ ~HasMatch(rw, r) THEN r ELSE RewriteToFixpoint(rw, r)
RewriteToFixpoint(rw, e) == RepeatFrom(rw, RewriteAll(rw, e))

\* match-once: the callback is applied to the first match in post-order
\* and the traversal stops; [found, expr]
RECURSIVE RewriteFirst(_, _)
RECURSIVE RewriteFirstArgs(_, _, _)
RewriteFirstArgs(rw, args, i) ==
    IF i > Len(args) THEN [found |-> FALSE, args |-> args]
    ELSE LET r == RewriteFirst(rw, args[i])
         IN  IF r.found THEN [found |-> TRUE, args |-> [args EXCEPT ![i] = r.expr]]
             ELSE RewriteFirstArgs(rw, args, i + 1)
RewriteFirst(rw, pre) ==
    LET ra == RewriteFirstArgs(rw, pre.args, 1)
    IN  IF ra.found THEN [found |-> TRUE, expr |-> [pre EXCEPT !.args = ra.args]]
        ELSE IF Matches(rw, pre) THEN [found |-> TRUE, expr |-> callback(rw, pre, pre)]
        ELSE [found |-> FALSE, expr |-> pre]

\* rewrite(Rewriter(), func)
rewrite(rw, func) ==
    IF rewrite_once(rw) THEN RewriteFirst(rw, func).expr
    ELSE RewriteToFixpoint(rw, func)

(***************************************************************************)
(* The passes (legalize.py 112-122 and its 18 likes) and LegalizeEthosU    *)
(* (legalize.py 1228-1260).  A module is the sequence of its functions     *)
(* [name, body] in the order mod.functions.items() yields them.            *)
(***************************************************************************)
NoError == [error |-> "", layout |-> ""]

\* for global_var, func in mod.functions.items():
\*     func = rewrite(Rewriter(), func); mod.update_func(global_var, func)
\* from function i on; an exception leaves the functions already updated
RECURSIVE transform_module(_, _, _)
RECURSIVE update_func(_, _, _, _)
\* the mutant of update_func that updates the module's first function
update_func_first(rw, m, i, func) ==
    IF IsRaise(func) THEN [mod |-> m, error |-> func.attrs]
    ELSE transform_module(rw, [m EXCEPT ![1].body = func], i + 1)

update_func(rw, m, i, func) ==
    IF IsRaise(func) THEN [mod |-> m, error |-> func.attrs]
    ELSE transform_module(rw, [m EXCEPT ![i].body = func], i + 1)
transform_module(rw, m, i) ==
    IF i > Len(m) THEN [mod |-> m, error |-> NoError]
    ELSE update_func(rw, m, i, rewrite(rw, m[i].body))

\* the mutant of NumPasses that returns before the last pass
NumPasses_short == Len(Rewriters) - 1

NumPasses == Len(Rewriters)

\* mod = Legalize<rw>()(mod), the k-th statement of LegalizeEthosU
\* the pass returned r.mod, or raised r.error having updated the module to r.mod
PassReturns(k, r) ==
    /\ passes_run' = Append(passes_run, Rewriters[k])
    /\ mod' = r.mod
    /\ error' = r.error
    /\ IF r.error # NoError
       THEN pc' = "aborted" /\ pass_idx' = pass_idx
       ELSE /\ pass_idx' = k + 1
            /\ pc' = IF k = NumPasses THEN "legalized" ELSE "legalize"

RunPass(k) ==
    /\ pc = "legalize"
    /\ pass_idx = k
    /\ PassReturns(k, transform_module(Rewriters[k], mod, 1))
    /\ UNCHANGED <<mod_before, run, perm_order, split_vars, lut_vars, bin_vars, mean_vars,
                   cb_vars>>

LegalizeSplit == RunPass(1)
LegalizeConv2D == RunPass(2)
LegalizeDepthwiseConv2D == RunPass(3)
LegalizeMaxPooling == RunPass(4)
LegalizeAvgPooling == RunPass(5)
LegalizeAdd == RunPass(6)
LegalizeSub == RunPass(7)
LegalizeMul == RunPass(8)
LegalizeMin == RunPass(9)
LegalizeMax == RunPass(10)
LegalizeShl == RunPass(11)
LegalizeAbs == RunPass(12)
LegalizeTanh == RunPass(13)
LegalizeMean == RunPass(14)
LegalizeConcat == RunPass(15)
LegalizeSigmoid == RunPass(16)
LegalizeReshape == RunPass(17)
LegalizeStridedSlice == RunPass(18)
LegalizeNoOps == RunPass(19)

\* how many times the caller invokes LegalizeEthosU on the module
MaxRuns == 2

\* the caller passes its module to LegalizeEthosU()
CallLegalizeEthosU ==
    /\ pc \in {"module", "legalized"}
    /\ run < MaxRuns
    /\ run' = run + 1
    /\ mod_before' = mod
    /\ pass_idx' = 1
    /\ pc' = "legalize"
    /\ passes_run' = <<>>
    /\ UNCHANGED <<mod, error, perm_order, split_vars, lut_vars, bin_vars, mean_vars,
                   cb_vars>>

(***************************************************************************)
(* The modules the pipeline is applied to: each function body is a chain   *)
(* of layers over a channel-last input, typed as the partitioner leaves    *)
(* it (every tensor NHWC of rank 4, params consistent with the shapes).    *)
(***************************************************************************)
\* most layers of a function body
MaxLayers == 2

Tensor(shape, dtype, layout, scale, zp) ==
    [shape |-> shape, dtype |-> dtype, layout |-> layout, q_params |-> QParams(scale, zp)]

ConvParams(sh, d, ofm_layout, weights_layout, weights_shape, weights_axes) ==
    [ifm |-> Tensor(sh, d, "NHWC", <<1, 2>>, 0),
     weights |-> [shape |-> weights_shape, layout |-> weights_layout,
                  values |-> [shape |-> weights_shape, axes |-> weights_axes,
                              dtype |-> "int8"],
                  q_params |-> QParams(<<1, 4>>, 0)],
     ofm |-> Tensor(sh, d, ofm_layout, <<1, 2>>, 0),
     biases |-> ConstFill(<<sh[4]>>, 0, "int32"),
     strides |-> <<1, 1>>, padding |-> <<0, 0, 0, 0>>, dilation |-> <<1, 1>>,
     activation |-> NoActivation]

ElementwiseParams(operator_type, shapes, ofm_shape, d) ==
    [operator_type |-> operator_type,
     reversed_operands |-> FALSE,
     ifm |-> Tensor(shapes[1], d, "NHWC", <<1, 2>>, 0),
     operands |-> [i \in 1..Len(shapes) |->
                      [shape |-> shapes[i], layout |-> "NHWC",
                       q_params |-> QParams(<<1, 2>>, 0)]],
     ofm |-> Tensor(ofm_shape, d, "NHWC", <<1, 2>>, 0),
     activation |-> NoActivation]

\* layer kind k applied to expression x in a function of element type d
Layer(k, x, d) ==
    LET sh == checked_shape(x)
        flat == <<1, 1, sh[2] * sh[3], sh[4]>>
        row == <<1, 1, sh[3], sh[4]>>
        binary(name, operator_type) ==
            Composite(name, <<x, Var("y", <<sh[4]>>, d)>>,
                      ElementwiseParams(operator_type, <<sh, <<sh[4]>>>>, sh, d))
    IN  CASE k = "split" ->
                Node("TupleGetItem",
                     <<relay_split(x, [is_array |-> FALSE, indices |-> <<>>,
                                       sections |-> sh[4]], 3)>>,
                     [index |-> 0])
          [] k = "qnn_conv2d" ->
                Composite("ethos-u.qnn_conv2d", <<x>>,
                          ConvParams(sh, d, "NHWC", "HWIO", <<1, 1, sh[4], sh[4]>>,
                                     <<"H", "W", "I", "O">>))
          [] k = "qnn_conv2d_nchw" ->
                Composite("ethos-u.qnn_conv2d", <<x>>,
                          ConvParams(sh, d, "NCHW", "HWIO", <<1, 1, sh[4], sh[4]>>,
                                     <<"H", "W", "I", "O">>))
          [] k = "depthwise_conv2d" ->
                Composite("ethos-u.depthwise_conv2d", <<x>>,
                          ConvParams(sh, d, "NHWC", "HWOI", <<1, 1, sh[4], 1>>,
                                     <<"H", "W", "O", "I">>))
          [] k \in {"maxpool2d", "avgpool2d"} ->
                Composite("ethos-u." \o k, <<x>>,
                          [pooling_type |-> IF k = "maxpool2d" THEN "MAX" ELSE "AVG",
                           ifm |-> Tensor(sh, d, "NHWC", <<1, 2>>, 0),
                           ofm |-> Tensor(sh, d, "NHWC", <<1, 2>>, 0),
                           pool_shape |-> <<1, 1>>, strides |-> <<1, 1>>,
                           padding |-> <<0, 0, 0, 0>>,
                           activation |-> NoActivation])
          [] k = "add" -> binary("ethos-u.add", "ADD")
          [] k = "sub" -> binary("ethos-u.sub", "SUB")
          [] k = "mul" -> binary("ethos-u.mul", "MUL")
          [] k = "min" -> binary("ethos-u.min", "MIN")
          [] k = "max" -> binary("ethos-u.max", "MAX")
          [] k = "shl" -> binary("ethos-u.shl", "SHL")
          [] k = "abs" ->
                Composite("ethos-u.abs", <<x>>, ElementwiseParams("ABS", <<sh>>, sh, d))
          [] k \in {"tanh", "sigmoid"} ->
                Composite("ethos-u." \o k, <<x>>,
                          [ifm |-> Tensor(sh, d, "NHWC", <<1, 4>>, 0),
                           ofm |-> Tensor(sh, d, "NHWC", <<1, 128>>, 0)])
          [] k = "mean" ->
                Composite("ethos-u.mean", <<x>>,
                          [ifm |-> Tensor(sh, d, "NHWC", <<1, 2>>, 0),
                           ofm |-> Tensor(MeanOfmShape(sh, <<1, 2>>, TRUE), d, "NHWC",
                                          <<1, 4>>, 0),
                           axis |-> <<1, 2>>,
                           keepdims |-> TRUE,
                           height |-> MeanParams_height(sh),
                           width |-> MeanParams_width(sh)])
          [] k = "concat" ->
                Composite("ethos-u.concat", <<x, Var("z", sh, d)>>,
                          [axis |-> 3,
                           ofm |-> Tensor([sh EXCEPT ![4] = 2 * sh[4]], d, "NHWC",
                                          <<1, 2>>, 0)])
          [] k = "reshape_c" ->
                Composite("ethos-u.reshape", <<x>>,
                          [new_shape |-> flat,
                           ifm |-> Tensor(sh, d, "NHWC", <<1, 2>>, 0),
                           ofm |-> Tensor(flat, d, "NHWC", <<1, 2>>, 0)])
          [] k = "strided_slice_c" ->
                Composite("ethos-u.strided_slice", <<x>>,
                          [begin |-> <<0, 0, 0, 0>>, end |-> row,
                           ifm |-> Tensor(sh, d, "NHWC", <<1, 2>>, 0),
                           ofm |-> Tensor(row, d, "NHWC", <<1, 2>>, 0)])
          [] k = "reshape" -> relay_reshape(x, flat)
          [] k = "strided_slice" -> relay_strided_slice(x, <<0, 0, 0, 0>>, row)

\* every layer kind, and the kinds of the layers above the first
LayerKinds ==
    {"split", "qnn_conv2d", "qnn_conv2d_nchw", "depthwise_conv2d", "maxpool2d",
     "avgpool2d", "add", "sub", "mul", "min", "max", "shl", "abs", "tanh", "sigmoid",
     "mean", "concat", "reshape_c", "strided_slice_c", "reshape", "strided_slice"}
OuterLayerKinds ==
    {"qnn_conv2d", "qnn_conv2d_nchw", "tanh", "reshape_c", "reshape", "strided_slice_c"}

InputShape == <<1, 2, 2, 2>>

\* the bodies of exactly n layers over an int8 input
RECURSIVE Bodies(_)
Bodies(n) ==
    IF n = 0 THEN {Var("x", InputShape, "int8")}
    ELSE {Layer(k, b, "int8") :
            k \in (IF n = 1 THEN LayerKinds ELSE OuterLayerKinds), b \in Bodies(n - 1)}

\* the bodies of a second function
OtherBodies ==
    {Layer("reshape", Var("x", InputShape, "int32"), "int32"),
     Layer("strided_slice", Var("x", InputShape, "int32"), "int32"),
     Layer("qnn_conv2d_nchw", Var("x", InputShape, "int8"), "int8")}

Modules ==
    LET main == UNION {Bodies(n) : n \in 0..MaxLayers}
    IN  {<<[name |-> "main", body |-> b]>> : b \in main}
        \cup {<<[name |-> "main", body |-> b], [name |-> "ethos-u_0", body |-> o]>> :
                b \in main, o \in OtherBodies}

InitLegalize ==
    /\ pc = "module"
    /\ mod \in Modules
    /\ mod_before = Idle
    /\ pass_idx = 0
    /\ run = 0
    /\ error = NoError
    /\ passes_run = <<>>
    /\ perm_order = Idle
    /\ IdleSplit /\ IdleLut /\ IdleBin /\ IdleMean /\ IdleCb

NextLegalize ==
    \/ CallLegalizeEthosU
    \/ LegalizeSplit
    \/ LegalizeConv2D
    \/ LegalizeDepthwiseConv2D
    \/ LegalizeMaxPooling
    \/ LegalizeAvgPooling
    \/ LegalizeAdd
    \/ LegalizeSub
    \/ LegalizeMul
    \/ LegalizeMin
    \/ LegalizeMax
    \/ LegalizeShl
    \/ LegalizeAbs
    \/ LegalizeTanh
    \/ LegalizeMean
    \/ LegalizeConcat
    \/ LegalizeSigmoid
    \/ LegalizeReshape
    \/ LegalizeStridedSlice
    \/ LegalizeNoOps

SpecLegalize == InitLegalize /\ [][NextLegalize]_vars

(***************************************************************************)
(* The passes of LegalizeEthosU applied in another order: LegalizeSplit     *)
(* first, the operator-specific passes (statements 2 to 16 of               *)
(* transform_module) permuted, then the two extractions and the no-op       *)
(* guard.                                                                   *)
(***************************************************************************)
\* the operator-specific passes, in the code's order
OperatorPasses == SubSeq(Rewriters, 2, 16)

Reverse(s) == [i \in 1..Len(s) |-> s[Len(s) + 1 - i]]
Rotate(s, r) == [i \in 1..Len(s) |-> s[((i - 1 + r) % Len(s)) + 1]]

\* the rotations of the code's order and of its reverse: every three passes
\* are in each of their six relative orders in one of them
PassOrders ==
    {<<Rewriters[1]>> \o p \o SubSeq(Rewriters, 17, 19) :
        p \in {Rotate(OperatorPasses, r) : r \in 0..(Len(OperatorPasses) - 1)}
              \cup {Rotate(Reverse(OperatorPasses), r) : r \in 0..(Len(OperatorPasses) - 1)}}

\* the layers of the permuted runs: every operator family inside, a few outside
PermLayerKinds ==
    {"split", "qnn_conv2d", "depthwise_conv2d", "maxpool2d", "avgpool2d", "add", "sub",
     "mul", "min", "max", "shl", "abs", "tanh", "sigmoid", "mean", "concat", "reshape_c"}
PermOuterLayerKinds == {"tanh", "concat", "mean"}

RECURSIVE PermBodies(_)
PermBodies(n) ==
    IF n = 0 THEN {Var("x", InputShape, "int8")}
    ELSE {Layer(k, b, "int8") :
            k \in (IF n = 1 THEN PermLayerKinds ELSE PermOuterLayerKinds),
            b \in PermBodies(n - 1)}

PermModules ==
    {<<[name |-> "main", body |-> b]>> : b \in UNION {PermBodies(n) : n \in 0..MaxLayers}}

\* the passes of order from the k-th on, applied to module m; a pass that
\* raises ends the run
RECURSIVE LegalizeInOrder(_, _, _)
RECURSIVE LegalizeNext(_, _, _)
LegalizeNext(order, r, k) ==
    IF r.error # NoError THEN r ELSE LegalizeInOrder(order, r.mod, k + 1)
LegalizeInOrder(order, m, k) ==
    IF k > Len(order) THEN [mod |-> m, error |-> NoError]
    ELSE LegalizeNext(order, transform_module(order[k], m, 1), k)

InitPermuted ==
    /\ pc = "permuted_module"
    /\ mod \in PermModules
    /\ mod_before = Idle
    /\ pass_idx = 0
    /\ run = 0
    /\ error = NoError
    /\ passes_run = <<>>
    /\ perm_order \in PassOrders
    /\ IdleSplit /\ IdleLut /\ IdleBin /\ IdleMean /\ IdleCb

CallPermuted ==
    /\ pc = "permuted_module"
    /\ run' = run + 1
    /\ mod_before' = mod
    /\ pass_idx' = 1
    /\ pc' = "permuting"
    /\ UNCHANGED <<mod, error, passes_run, perm_order, split_vars, lut_vars, bin_vars,
                   mean_vars, cb_vars>>

\* the pass returned r.mod, or raised r.error
PermutedPassReturns(r) ==
    /\ passes_run' = Append(passes_run, perm_order[pass_idx])
    /\ mod' = r.mod
    /\ error' = r.error
    /\ pass_idx' = pass_idx + 1
    /\ pc' = IF r.error # NoError THEN "aborted"
             ELSE IF pass_idx = Len(perm_order) THEN "permuted" ELSE "permuting"

RunPermutedPass ==
    /\ pc = "permuting"
    /\ PermutedPassReturns(transform_module(perm_order[pass_idx], mod, 1))
    /\ UNCHANGED <<mod_before, run, perm_order, split_vars, lut_vars, bin_vars, mean_vars,
                   cb_vars>>

NextPermuted == CallPermuted \/ RunPermutedPass

SpecPermuted == InitPermuted /\ [][NextPermuted]_vars

(***************************************************************************)
(* One rewriter's callback applied to one call its pattern matched: the    *)
(* conv2d, depthwise conv2d, pooling, binary and unary elementwise         *)
(* composites and the bare reshape / strided_slice of the no-op guard,     *)
(* over the layouts, weight layouts, activations and element types a       *)
(* composite can carry.                                                    *)
(***************************************************************************)
\* largest height and width of a kernel or pooling window
MaxKernel == 2

\* the order of the axes of a weight tensor of the given layout
LayoutAxes(layout) ==
    CASE layout = "HWIO" -> <<"H", "W", "I", "O">>
      [] layout = "OHWI" -> <<"O", "H", "W", "I">>
      [] layout = "HWOI" -> <<"H", "W", "O", "I">>
      [] layout = "OIHW" -> <<"O", "I", "H", "W">>

\* the shape of a weight tensor of the given layout
WeightsShape(layout, h, w, i, o) ==
    [k \in 1..4 |-> CASE LayoutAxes(layout)[k] = "H" -> h
                      [] LayoutAxes(layout)[k] = "W" -> w
                      [] LayoutAxes(layout)[k] = "I" -> i
                      [] LayoutAxes(layout)[k] = "O" -> o]

Clip(a_min, a_max) == [present |-> TRUE, a_min |-> a_min, a_max |-> a_max]
Activations == {NoActivation, Clip(90, 110), Clip(-128, 127)}
WeightLayouts == {"HWIO", "OHWI", "HWOI", "OIHW"}
CbLayouts == {"NHWC", "NCHW", "NHCWB16"}
CbShape == <<1, 3, 3, 2>>
CbShapes == {<<2>>, <<2, 3>>, <<1, 2, 3>>, <<1, 2, 2, 3>>}
CbChannels == 3
ElementTypes == {"int8", "uint8", "int16", "int32"}

Conv2DCalls ==
    {Composite("ethos-u.qnn_conv2d", <<Var("x", CbShape, "int8")>>,
               [ConvParams(CbShape, "int8", ol, wl,
                           WeightsShape(wl, h, w, CbShape[4], CbChannels), LayoutAxes(wl))
                   EXCEPT !.activation = a,
                          !.ofm.shape = <<1, 4 - h, 4 - w, CbChannels>>,
                          !.biases = ConstFill(<<CbChannels>>, 0, "int32")]) :
        ol \in CbLayouts, wl \in WeightLayouts, a \in Activations,
        h \in 1..MaxKernel, w \in 1..MaxKernel}

DepthwiseConv2DCalls ==
    {Composite("ethos-u.depthwise_conv2d", <<Var("x", CbShape, "int8")>>,
               [ConvParams(CbShape, "int8", ol, wl,
                           WeightsShape(wl, h, w, 1, CbShape[4]), LayoutAxes(wl))
                   EXCEPT !.activation = a,
                          !.ofm.shape = <<1, 4 - h, 4 - w, CbShape[4]>>]) :
        ol \in CbLayouts, wl \in WeightLayouts, a \in Activations,
        h \in 1..MaxKernel, w \in 1..MaxKernel}

PoolingCalls(pooling_type) ==
    {Composite(IF pooling_type = "MAX" THEN "ethos-u.maxpool2d" ELSE "ethos-u.avgpool2d",
               <<Var("x", CbShape, "int8")>>,
               [pooling_type |-> pooling_type,
                ifm |-> Tensor(CbShape, "int8", "NHWC", <<1, 2>>, 0),
                ofm |-> Tensor(<<1, 4 - h, 4 - w, CbShape[4]>>, "int8", ol, <<1, 2>>, 0),
                pool_shape |-> <<h, w>>, strides |-> <<1, 1>>,
                padding |-> <<0, 0, 0, 0>>,
                activation |-> a]) :
        ol \in CbLayouts, a \in Activations, h \in 1..MaxKernel, w \in 1..MaxKernel}

BinaryElementwiseCalls ==
    {Composite("ethos-u.add", <<Var("a", s1, "int8"), Var("b", s2, "int8")>>,
               [ElementwiseParams("ADD", <<s1, s2>>, IF r THEN s2 ELSE s1, "int8")
                   EXCEPT !.reversed_operands = r, !.ofm.layout = ol,
                          !.activation = a]) :
        s1 \in CbShapes, s2 \in CbShapes, r \in BOOLEAN, ol \in CbLayouts,
        a \in Activations}

UnaryElementwiseCalls ==
    {Composite("ethos-u.abs", <<Var("x", sh, "int8")>>,
               [ElementwiseParams("ABS", <<sh>>, sh, "int8")
                   EXCEPT !.ofm.layout = ol, !.activation = a]) :
        sh \in CbShapes, ol \in CbLayouts, a \in Activations}

\* the bare reshape and strided_slice calls, over an input or over another
\* reshape, of every element type
NoOpCalls ==
    LET inputs(d) == {Var("x", <<1, 2, 2, 3>>, d),
                      relay_reshape(Var("x", <<1, 4, 3>>, d), <<1, 2, 2, 3>>)}
    IN  UNION {{relay_reshape(x, <<1, 4, 3>>),
                relay_strided_slice(x, <<0, 0, 0, 0>>, <<1, 1, 2, 3>>)} :
                  x \in UNION {inputs(d) : d \in ElementTypes}}

\* the most arguments of a concat composite call
MaxConcatArgs == 3

\* what a concat composite is called on: calls, a parameter, a constant
ConcatInputs ==
    {relay_reshape(Var("a", <<1, 4, 3>>, "int8"), CbShape),
     relay_strided_slice(Var("b", CbShape, "int8"), <<0, 0, 0, 0>>, CbShape),
     Var("z", CbShape, "int8"),
     Node("const", <<>>, ConstFill(CbShape, 1, "int8"))}

\* the concat composite calls; params.axis is post.op.body.attrs.axis
ConcatCalls ==
    UNION {{Composite("ethos-u.concat", args, [axis |-> axis]) :
                args \in [1..n -> ConcatInputs], axis \in 0..3} : n \in 1..MaxConcatArgs}

CbRewriters ==
    {"Conv2D", "DepthwiseConv2D", "MaxPooling", "AvgPooling", "Add", "Abs", "NoOp",
     "Concat"}

CbCalls(rw) ==
    CASE rw = "Conv2D" -> Conv2DCalls
      [] rw = "DepthwiseConv2D" -> DepthwiseConv2DCalls
      [] rw = "MaxPooling" -> PoolingCalls("MAX")
      [] rw = "AvgPooling" -> PoolingCalls("AVG")
      [] rw = "Add" -> BinaryElementwiseCalls
      [] rw = "Abs" -> UnaryElementwiseCalls
      [] rw = "NoOp" -> NoOpCalls
      [] rw = "Concat" -> ConcatCalls

InitCallback ==
    /\ pc = "matched"
    /\ cb_rw \in CbRewriters
    /\ cb_call \in CbCalls(cb_rw)
    /\ cb_out = Idle
    /\ IdleSplit /\ IdleLut /\ IdleBin /\ IdleMean /\ IdleLegalize

\* the callback of rewriter rw returns or raises out
CallbackReturns(rw, out) ==
    /\ pc = "matched"
    /\ cb_rw \in rw
    /\ cb_out' = out
    /\ pc' = "returned"
    /\ UNCHANGED <<cb_rw, cb_call, split_vars, lut_vars, bin_vars, mean_vars,
                   legalize_vars>>

Conv2DCallback == CallbackReturns({"Conv2D"}, Conv2DRewriter_callback(cb_call))
DepthwiseConv2DCallback ==
    CallbackReturns({"DepthwiseConv2D"}, DepthwiseConv2DRewriter_callback(cb_call))
PoolingCallback ==
    CallbackReturns({"MaxPooling", "AvgPooling"}, PoolingRewriter_callback(cb_call))
BinaryElementwiseCallback ==
    CallbackReturns({"Add"}, BinaryElementwiseRewriter_callback(cb_call))
UnaryElementwiseCallback ==
    CallbackReturns({"Abs"}, UnaryElementwiseRewriter_callback(cb_call))
NoOpCallback == CallbackReturns({"NoOp"}, NoOpRewriter_callback(cb_call, cb_call))
ConcatCallback == CallbackReturns({"Concat"}, ConcatRewriter_callback(cb_call))

NextCallback ==
    \/ Conv2DCallback
    \/ DepthwiseConv2DCallback
    \/ PoolingCallback
    \/ BinaryElementwiseCallback
    \/ UnaryElementwiseCallback
    \/ NoOpCallback
    \/ ConcatCallback

SpecCallback == InitCallback /\ [][NextCallback]_vars

(***************************************************************************)
(* Claims.                                                                 *)
(***************************************************************************)
SplitAxis == split.attrs.axis + 1
SplitShape == checked_shape(split.args[1])
SplitLen == SplitShape[SplitAxis]
SplitSpec == split.attrs.indices_or_sections
SliceBegin(i) == split_out.args[i].attrs.begin
SliceEnd(i) == split_out.args[i].attrs.end

\* C1: for every extent L and every valid split specification, the slices'
\* begins on the split axis start at 0 and strictly increase, each slice ends
\* where the next begins, the last ends at L, and every other axis runs from
\* 0 to the input's extent: the slices tile the input.
C1_SlicesTileInput ==
    pc = "split_done" =>
        LET n == Len(split_out.args)
        IN  /\ n >= 1
            /\ SliceBegin(1)[SplitAxis] = 0
            /\ SliceEnd(n)[SplitAxis] = SplitLen
            /\ \A i \in 1..n :
                /\ Len(SliceBegin(i)) = Len(SplitShape)
                /\ Len(SliceEnd(i)) = Len(SplitShape)
                /\ SliceBegin(i)[SplitAxis] < SliceEnd(i)[SplitAxis]
                /\ i < n => SliceEnd(i)[SplitAxis] = SliceBegin(i + 1)[SplitAxis]
                /\ i < n => SliceBegin(i)[SplitAxis] < SliceBegin(i + 1)[SplitAxis]
                /\ \A a \in 1..Len(SplitShape) :
                    a # SplitAxis =>
                        /\ SliceBegin(i)[a] = 0
                        /\ SliceEnd(i)[a] = SplitShape[a]

\* C1 witness: a rank-2 input split by a count that does not divide the
\* extent, and one split by two explicit cut indices, have been legalized
C1_Witness ==
    /\ pc = "split_done"
    /\ Len(SplitShape) = 2
    /\ Len(split_out.args) >= 3
    /\ \/ /\ ~SplitSpec.is_array
          /\ SplitLen % SplitSpec.sections # 0
       \/ /\ SplitSpec.is_array
          /\ Len(SplitSpec.indices) = 2

\* C2: an integer count k yields exactly k slices, beginning at
\* 0, L div k, ..., (k-1)(L div k), also when k does not divide L.
C2_CountGivesKSlices ==
    (pc = "split_done" /\ ~SplitSpec.is_array) =>
        LET k == SplitSpec.sections
        IN  /\ Len(split_out.args) = k
            /\ \A i \in 1..k : SliceBegin(i)[SplitAxis] = (i - 1) * (SplitLen \div k)

\* C3: the table has exactly 256 entries, one per code -128..127 in order,
\* each within [-128, 127].
C3_LutRange ==
    pc = "lut_done" =>
        /\ Len(lut_values) = 256
        /\ \A i \in 1..Len(lut_values) : lut_values[i] >= -128 /\ lut_values[i] <= 127

\* C3 witness: a table was produced in which the unclamped value of some
\* code lies above 127 and that of another lies below -128
C3_Witness ==
    /\ pc = "lut_done"
    /\ lut_args.ofm_zp = 127
    /\ lut_args.ofm_scale = <<1, 256>>
    /\ lut_args.func = "TANH"
    /\ lut_args.ifm_scale = <<1, 4>>
    /\ lut_args.ifm_zp = 0
    /\ lut_values[1] = -128
    /\ lut_values[256] = 127

\* C4: the sigmoid table is monotonically non-decreasing in the input code.
C4_SigmoidMonotone ==
    (pc = "lut_done" /\ lut_args.func = "SIGMOID") =>
        \A i \in 1..(Len(lut_values) - 1) : lut_values[i] <= lut_values[i + 1]

\* C4 witness: a sigmoid table whose codes cross both saturation points
\* (real values -8.0 and +8.0) and that takes more than two values
C4_Witness ==
    /\ pc = "lut_done"
    /\ lut_args.func = "SIGMOID"
    /\ lut_args.ifm_scale = <<1, 4>>
    /\ lut_args.ifm_zp = 0
    /\ lut_values[1] < lut_values[128]
    /\ lut_values[128] < lut_values[256]

\* the hardware operator inside what the binary elementwise callback returned
BinHwOp == IF bin_out.op = "reshape" THEN bin_out.args[1] ELSE bin_out
\* the first operand (ifm) of the composite, after the reversed-operands flag
BinFirst == IF bin_call.attrs.params.reversed_operands THEN 2 ELSE 1
BinSecond == IF bin_call.attrs.params.reversed_operands THEN 1 ELSE 2
\* whether hardware input e is argument k of the call, padded to rank 4
\* when its rank is below 4 and passed as it is otherwise
BinPadded(e, k) ==
    LET shape == bin_call.attrs.params.operands[k].shape
        r == Len(shape)
    IN  IF r < 4
        THEN /\ e.op = "reshape"
             /\ e.args[1] = bin_call.args[k]
             /\ Len(e.attrs.newshape) = 4
             /\ \A a \in 1..4 :
                    e.attrs.newshape[a] = IF a <= 4 - r THEN 1 ELSE shape[a - (4 - r)]
        ELSE e = bin_call.args[k]

\* C5: the returned expression has the shape of the first operand before
\* padding; each operand of rank below 4 reaches the hardware operator
\* reshaped to rank 4 with size-1 axes prepended; the result is reshaped back
\* exactly when the first operand's rank is not 4.
C5_BinaryOutputShape ==
    (pc = "binary_done" /\ ~IsRaise(bin_out)) =>
        /\ checked_shape(bin_out) = bin_call.attrs.params.operands[BinFirst].shape
        /\ BinHwOp.op = "ethosu_binary_elementwise"
        /\ BinPadded(BinHwOp.args[1], BinFirst)
        /\ BinPadded(BinHwOp.args[2], BinSecond)
        /\ (bin_out.op = "reshape") <=> (Len(bin_call.attrs.params.operands[BinFirst].shape) # 4)

\* C5 witness: a reversed composite whose first operand has rank 2 and whose
\* second has rank 4 was legalized to a reshaped hardware operator
C5_Witness ==
    /\ pc = "binary_done"
    /\ bin_call.attrs.params.reversed_operands
    /\ Len(bin_call.attrs.params.operands[2].shape) = 2
    /\ Len(bin_call.attrs.params.operands[1].shape) = 4
    /\ bin_out.op = "reshape"

\* the hardware operator the mean callback returned, under the final reshape
MeanTop == IF mean_out.op = "reshape" THEN mean_out.args[1] ELSE mean_out
\* which of the three lowerings the returned expression is
MeanCaseA ==
    /\ MeanTop.op = "ethosu_binary_elementwise"
    /\ MeanTop.attrs.operator_type = "MUL"
    /\ MeanTop.args[1].op = "ethosu_depthwise_conv2d"
MeanCaseB == MeanTop.op = "ethosu_pooling"
MeanCaseC == MeanTop.op = "ethosu_depthwise_conv2d"
\* the rank-normalized reduction axes, as a set
MeanAxisSet == {MeanAxis(mean_call.attrs.params)[i] : i \in 1..Len(mean_call.attrs.params.axis)}
MeanSameQ ==
    /\ mean_call.attrs.params.ifm.q_params.scale_f32 = mean_call.attrs.params.ofm.q_params.scale_f32
    /\ mean_call.attrs.params.ifm.q_params.zero_point = mean_call.attrs.params.ofm.q_params.zero_point

C7_CaseBIffSameQuantization ==
    pc = "mean_done" =>
        /\ ~(MeanAxisSet = {1, 2} /\ mean_call.attrs.params.keepdims) =>
              /\ MeanCaseB <=> MeanSameQ
              /\ MeanCaseC <=> ~MeanSameQ
              /\ ~MeanCaseA
        /\ Cardinality({c \in {"A", "B", "C"} :
              \/ c = "A" /\ MeanCaseA
              \/ c = "B" /\ MeanCaseB
              \/ c = "C" /\ MeanCaseC}) = 1

\* C7 witness: a mean over one axis with equal scales and different
\* zero-points was legalized to the single depthwise convolution
C7_Witness ==
    /\ pc = "mean_done"
    /\ MeanAxisSet = {2}
    /\ mean_call.attrs.params.keepdims
    /\ mean_call.attrs.params.ifm.q_params.scale_f32 = mean_call.attrs.params.ofm.q_params.scale_f32
    /\ mean_call.attrs.params.ifm.q_params.zero_point # mean_call.attrs.params.ofm.q_params.zero_point
    /\ MeanCaseC

RECURSIVE HasComposite(_)
HasComposite(e) ==
    \/ e.op = "composite"
    \/ \E i \in 1..Len(e.args) : HasComposite(e.args[i])

ModHasComposite(m) == \E i \in 1..Len(m) : HasComposite(m[i].body)

\* C8: a second run of LegalizeEthosU on the module a first run produced,
\* which holds no composite call any more, returns that module unchanged,
\* also when it holds reshape or strided_slice of a type other than int32.
C8_SecondRunIsNoOp ==
    (pc = "legalized" /\ run = 2 /\ ~ModHasComposite(mod_before)) => mod = mod_before

\* C9: when a legalizer raises at any point of LegalizeEthosU, the module
\* the caller holds is the one it passed in: nothing an earlier pass, or the
\* failing pass on an earlier function, rewrote has been committed to it.
C9_FailureLeavesModuleUnchanged ==
    pc = "aborted" => mod = mod_before

CbParams == cb_call.attrs.params
CbReturned(rws) == pc = "returned" /\ cb_rw \in rws

\* C11: a conv2d composite becomes exactly one ethosu_conv2d node over the
\* composite's input; with a trailing clip [a, b] the node has activation
\* CLIP, clip_min a and clip_max b, with no activation it has activation
\* NONE and clip_min = clip_max = 0.
C11_Conv2DClipActivation ==
    (CbReturned({"Conv2D"}) /\ ~IsRaise(cb_out)) =>
        /\ cb_out.op = "ethosu_conv2d"
        /\ cb_out.args = cb_call.args
        /\ IF CbParams.activation.present
           THEN /\ cb_out.attrs.activation = "CLIP"
                /\ cb_out.attrs.clip_min = CbParams.activation.a_min
                /\ cb_out.attrs.clip_max = CbParams.activation.a_max
           ELSE /\ cb_out.attrs.activation = "NONE"
                /\ cb_out.attrs.clip_min = 0
                /\ cb_out.attrs.clip_max = 0

C11_Witness ==
    /\ CbReturned({"Conv2D"})
    /\ cb_out.op = "ethosu_conv2d"
    /\ cb_out.attrs.activation = "CLIP"
    /\ cb_out.attrs.clip_min = 90
    /\ cb_out.attrs.clip_max = 110

\* the extent of the weights of the matched composite along a named axis
WeightsExtent(axis) ==
    CbParams.weights.shape[CHOOSE k \in 1..4 : LayoutAxes(CbParams.weights.layout)[k] = axis]

\* C12: for each weight layout of HWIO, OHWI, HWOI the conv2d legalizer
\* succeeds, the weight constant is in (output channel, height, width,
\* input channel) order and kernel_shape is the kernel's (height, width);
\* for any other weight layout it raises UnsupportedLayout naming it.
C12_WeightLayoutsAccepted ==
    (CbReturned({"Conv2D"}) /\ CbParams.ofm.layout = "NHWC") =>
        IF CbParams.weights.layout \in {"HWIO", "OHWI", "HWOI"}
        THEN /\ cb_out.op = "ethosu_conv2d"
             /\ cb_out.attrs.weight.axes = <<"O", "H", "W", "I">>
             /\ cb_out.attrs.kernel_shape = <<WeightsExtent("H"), WeightsExtent("W")>>
        ELSE cb_out = Raise(CbParams.weights.layout)

HwOps ==
    {"ethosu_conv2d", "ethosu_depthwise_conv2d", "ethosu_pooling",
     "ethosu_binary_elementwise", "ethosu_unary_elementwise", "ethosu_identity"}

\* the number of nodes of expression e whose operator is in ops
RECURSIVE CountOps(_, _)
RECURSIVE SumOps(_, _, _)
SumOps(ops, args, i) ==
    IF i > Len(args) THEN 0 ELSE CountOps(ops, args[i]) + SumOps(ops, args, i + 1)
CountOps(ops, e) == (IF e.op \in ops THEN 1 ELSE 0) + SumOps(ops, e.args, 1)

MeanParams == mean_call.attrs.params
\* Case A is taken: axis == [1, 2] after rank normalization, and keepdims
MeanThroughCaseA ==
    /\ pc = "mean_done"
    /\ MeanAxis(MeanParams) = <<1, 2>>
    /\ MeanParams.keepdims

\* C13: a mean legalized through Case A is exactly two hardware nodes, none
\* of them a pooling: a depthwise convolution with an all-ones weight of
\* shape (channels, window height, window width, channels), zero biases and
\* int16 output, feeding a MUL binary elementwise whose second operand is a
\* constant int16 scalar and whose output is int8.
C13_MeanCaseANodes ==
    MeanThroughCaseA =>
        LET mul == MeanTop
            dw == MeanTop.args[1]
            shape4d == MeanIfmShape4d(MeanParams)
            weight == dw.attrs.weight
        IN  /\ CountOps(HwOps, mean_out) = 2
            /\ CountOps({"ethosu_pooling"}, mean_out) = 0
            /\ mul.op = "ethosu_binary_elementwise"
            /\ mul.attrs.operator_type = "MUL"
            /\ mul.attrs.ofm_dtype = "int8"
            /\ mul.args[2].op = "const"
            /\ mul.args[2].attrs.dtype = "int16"
            /\ mul.args[2].attrs.shape = <<1, 1, 1, 1>>
            /\ dw.op = "ethosu_depthwise_conv2d"
            /\ dw.attrs.ofm_dtype = "int16"
            /\ dw.attrs.scale_bias.biases.value = 0
            /\ weight.value = 1
            /\ weight.shape[1] = shape4d[4] /\ weight.shape[4] = shape4d[4]
            /\ <<weight.shape[2], weight.shape[3]>> = dw.attrs.kernel_shape
            /\ weight.shape[2] * weight.shape[3] = shape4d[2] * shape4d[3]

\* C13 witness: a rank-4 mean over a 2 x 2 window went through Case A
C13_Witness ==
    /\ MeanThroughCaseA
    /\ Len(MeanParams.ifm.shape) = 4
    /\ MeanTop.args[1].attrs.kernel_shape = <<2, 2>>
    /\ MeanTop.args[1].attrs.weight.value = 1

\* C14: the no-op guard wraps a bare reshape or strided_slice in an
\* ethosu_identity with an empty lookup table if and only if its element
\* type is not int32; an int32 reshape or strided_slice comes back unchanged.
C14_NoOpGuardWrapsNonInt32 ==
    CbReturned({"NoOp"}) =>
        IF checked_dtype(cb_call) # "int32"
        THEN /\ cb_out.op = "ethosu_identity"
             /\ cb_out.args = <<cb_call>>
             /\ cb_out.attrs.lut = <<>>
        ELSE cb_out = cb_call

\* C14 witness: an int32 strided_slice was handed to the guard and came back
\* as it was
C14_Witness ==
    /\ CbReturned({"NoOp"})
    /\ cb_call.op = "strided_slice"
    /\ checked_dtype(cb_call) = "int32"
    /\ cb_out = cb_call

\* C15: in the conv2d, depthwise conv2d, pooling, binary and unary
\* elementwise legalizers an output layout other than NHWC raises
\* UnsupportedLayout carrying that layout and no hardware node is emitted;
\* with an NHWC output no layout error is raised for the output tensor (the
\* only layout error left is one naming a weights layout).
C15_OutputLayoutMustBeNHWC ==
    CbReturned({"Conv2D", "DepthwiseConv2D", "MaxPooling", "AvgPooling", "Add", "Abs"}) =>
        IF CbParams.ofm.layout # "NHWC"
        THEN /\ cb_out = Raise(CbParams.ofm.layout)
             /\ CountOps(HwOps, cb_out) = 0
        ELSE (IsRaise(cb_out) /\ cb_out.attrs.error = "UnsupportedLayout") =>
                /\ cb_rw \in {"Conv2D", "DepthwiseConv2D"}
                /\ cb_out.attrs.layout = CbParams.weights.layout
                /\ cb_out.attrs.layout # CbParams.ofm.layout

\* C15 witness: the pooling legalizer met a channel-first output and raised
C15_Witness ==
    /\ CbReturned({"MaxPooling"})
    /\ CbParams.ofm.layout = "NCHW"
    /\ cb_out = Raise("NCHW")

OperatorRewriters ==
    {"Split", "Conv2D", "DepthwiseConv2D", "MaxPooling", "AvgPooling", "Add", "Sub",
     "Mul", "Min", "Max", "Shl", "Abs", "Tanh", "Mean", "Concat", "Sigmoid"}
ExtractionRewriters == {"Reshape", "StridedSlice"}
\* the passes called before the i-th pass of this invocation
RunBefore(i) == {passes_run[j] : j \in 1..(i - 1)}

\* C16: within an invocation the reshape and strided_slice extractions run
\* only after every operator-specific legalizer has run, and the no-op
\* guard runs after both extractions and is the last pass run.
C16_ExtractionThenGuardLast ==
    \A i \in 1..Len(passes_run) :
        /\ passes_run[i] \in ExtractionRewriters => OperatorRewriters \subseteq RunBefore(i)
        /\ passes_run[i] = "NoOp" =>
              /\ ExtractionRewriters \subseteq RunBefore(i)
              /\ i = Len(passes_run)
              /\ i = 19

\* C16 witness: an invocation returned having run the extractions and then
\* the guard
C16_Witness ==
    /\ pc = "legalized"
    /\ Len(passes_run) = 19
    /\ passes_run[17] = "Reshape" /\ passes_run[18] = "StridedSlice"
    /\ passes_run[19] = "NoOp"

\* C17: an invocation of LegalizeEthosU comes to an end within 19 steps:
\* while it runs some pass is due, each step either raises or moves on to
\* the next pass, and the 19th returns to the caller, each pass having run
\* exactly once, in order; a repeat-to-fixpoint pass that returned left no
\* match of its own pattern, and the no-op guard, whose replacement holds
\* its own pattern, added at most one identity per reshape or
\* strided_slice the function held.
C17_PipelineTerminates ==
    /\ [](pc = "legalize" => (pass_idx \in 1..19 /\ Len(passes_run) = pass_idx - 1))
    /\ [][pc = "legalize" =>
            \/ pc' = "aborted" /\ error' # NoError
            \/ /\ pass_idx' = pass_idx + 1
               /\ pc' = IF pass_idx = 19 THEN "legalized" ELSE "legalize"]_vars
    /\ [](pc = "legalized" => passes_run = Rewriters)
    /\ []((pc # "aborted" /\ passes_run # <<>> /\ ~rewrite_once(passes_run[Len(passes_run)]))
            => \A f \in 1..Len(mod) :
                  ~HasMatch(passes_run[Len(passes_run)], mod[f].body))
    /\ [][(pc = "legalize" /\ pass_idx = 19) =>
            \A f \in 1..Len(mod) :
                CountOps({"ethosu_identity"}, mod'[f].body)
                    <= CountOps({"ethosu_identity"}, mod[f].body)
                       + CountOps({"reshape", "strided_slice"}, mod[f].body)]_vars

\* C17 witness: an invocation returned after all 19 passes, the guard having
\* wrapped a reshape that its own pattern still matches
C17_Witness ==
    /\ pc = "legalized"
    /\ passes_run = Rewriters
    /\ mod[1].body.op = "ethosu_identity"
    /\ mod[1].body.args[1].op = "reshape"
    /\ HasMatch("NoOp", mod[1].body)

\* C18: a pass leaves the body of a function that holds no match of its
\* pattern unchanged, raises no error when no function holds a match, and
\* the function names of the module are the same before and after.
C18_NoMatchLeavesFunction ==
    [][pc = "legalize" =>
        /\ Len(mod') = Len(mod)
        /\ \A f \in 1..Len(mod) :
              /\ mod'[f].name = mod[f].name
              /\ ~HasMatch(Rewriters[pass_idx], mod[f].body) => mod'[f].body = mod[f].body
        /\ (\A f \in 1..Len(mod) : ~HasMatch(Rewriters[pass_idx], mod[f].body))
              => (error' = NoError /\ pc' # "aborted")]_vars

\* C18 witness: LegalizeSplit has run over two functions and the module is
\* the one the caller passed
C18_Witness ==
    /\ pc = "legalize"
    /\ passes_run = <<"Split">>
    /\ Len(mod) = 2
    /\ mod = mod_before
    /\ error = NoError

Abs(v) == IF v < 0 THEN -v ELSE v

\* ofm_zero_point + f(ifm_scale * (x - ifm_zero_point)) / ofm_scale for the
\* code x of table entry i, as the fraction LutNum(i) / LutDen
LutNum(i) ==
    LET x == i - 129
        x_real == <<lut_args.ifm_scale[1] * (x - lut_args.ifm_zp), lut_args.ifm_scale[2]>>
    IN  lut_args.ofm_zp * FixedPoint * lut_args.ofm_scale[1]
            + calc_func(lut_args.func, x_real) * lut_args.ofm_scale[2]
LutDen == FixedPoint * lut_args.ofm_scale[1]

\* e is LutNum(i) / LutDen rounded to the nearest integer, a tie going to
\* the integer farther from zero
IsRoundHalfAway(e, i) ==
    /\ 2 * Abs(e * LutDen - LutNum(i)) <= LutDen
    /\ 2 * Abs(e * LutDen - LutNum(i)) = LutDen => Abs(e * LutDen) > Abs(LutNum(i))

\* C19: the table entry of every code x in [-128, 127] is
\* ofm_zero_point + f(ifm_scale * (x - ifm_zero_point)) / ofm_scale rounded
\* half away from zero, then clamped to [-128, 127].
C19_LutEntryFormula ==
    pc = "lut_done" =>
        \A i \in 1..256 :
            \/ -128 < lut_values[i] /\ lut_values[i] < 127 /\ IsRoundHalfAway(lut_values[i], i)
            \/ lut_values[i] = 127 /\ 2 * LutNum(i) >= 253 * LutDen
            \/ lut_values[i] = -128 /\ 2 * LutNum(i) <= (-255) * LutDen

\* C19 witness: sigmoid(0) = 0.5 at output scale 1 and zero-point -3 is the
\* tie -2.5, which went to -3
C19_Witness ==
    /\ pc = "lut_done"
    /\ lut_args.func = "SIGMOID"
    /\ lut_args.ofm_scale = <<1, 1>> /\ lut_args.ofm_zp = -3
    /\ lut_args.ifm_zp = 0
    /\ 2 * LutNum(129) = (-5) * LutDen
    /\ lut_values[129] = -3

\* the call argument behind a hardware input, under the padding reshape
BinTensor(e) == IF e.op = "reshape" THEN e.args[1] ELSE e

\* C20: with the reversed-operands flag true the hardware op's ifm is the
\* composite call's second argument and its ifm2 the first, with the flag
\* false ifm is the first and ifm2 the second; the flag is forwarded as it
\* is, and the ifm / ifm2 scales, zero-points and channel counts are those
\* of the operands so assigned.
C20_ReversedOperandsAssignment ==
    (pc = "binary_done" /\ ~IsRaise(bin_out)) =>
        LET p == bin_call.attrs.params
            first == IF p.reversed_operands THEN 2 ELSE 1
            second == IF p.reversed_operands THEN 1 ELSE 2
            hw == BinHwOp
        IN  /\ BinTensor(hw.args[1]) = bin_call.args[first]
            /\ BinTensor(hw.args[2]) = bin_call.args[second]
            /\ hw.attrs.reversed_operands = p.reversed_operands
            /\ hw.attrs.ifm_scale = p.operands[first].q_params.scale_f32
            /\ hw.attrs.ifm_zero_point = p.operands[first].q_params.zero_point
            /\ hw.attrs.ifm2_scale = p.operands[second].q_params.scale_f32
            /\ hw.attrs.ifm2_zero_point = p.operands[second].q_params.zero_point
            /\ hw.attrs.ifm_channels
                  = p.operands[first].shape[Len(p.operands[first].shape)]
            /\ hw.attrs.ifm2_channels
                  = p.operands[second].shape[Len(p.operands[second].shape)]

\* C20 witness: a reversed composite was legalized and the hardware op's
\* ifm is the call's second argument with that operand's scale
C20_Witness ==
    /\ pc = "binary_done"
    /\ bin_call.attrs.params.reversed_operands
    /\ ~IsRaise(bin_out)
    /\ BinTensor(BinHwOp.args[1]) = bin_call.args[2]
    /\ bin_call.args[2] # bin_call.args[1]
    /\ BinHwOp.attrs.ifm_scale = <<1, 4>>
    /\ BinHwOp.attrs.reversed_operands

\* the input of the innermost hardware operator of the returned expression
MeanHwIn == IF MeanCaseA THEN MeanTop.args[1].args[1] ELSE MeanTop.args[1]

\* the shapes of the reshapes between the composite's argument and the
\* innermost hardware operator, the one applied first coming first
RECURSIVE InputReshapes(_)
InputReshapes(e) ==
    IF e.op = "reshape" THEN InputReshapes(e.args[1]) \o <<e.attrs.newshape>> ELSE <<>>

\* the window of the innermost hardware operator
MeanWindow ==
    IF MeanCaseB THEN MeanTop.attrs.pool_shape
    ELSE IF MeanCaseA THEN MeanTop.args[1].attrs.kernel_shape
    ELSE MeanTop.attrs.kernel_shape

\* the product of the extents of shape on the (0-based) axes of axis
RECURSIVE ExtentProduct(_, _, _)
ExtentProduct(shape, axis, i) ==
    IF i > Len(axis) THEN 1 ELSE shape[axis[i] + 1] * ExtentProduct(shape, axis, i + 1)

\* the flattening reshape of a window higher than MaxKernelHeight is there
MeanFlattened ==
    /\ MeanAxis(MeanParams) = <<1, 2>>
    /\ MeanIfmShape4d(MeanParams)[2] > MaxKernelHeight

\* C21 as stated: an input of rank r < 4 is reshaped to (4 - r) size-1 axes
\* followed by its shape and every reduction axis is shifted by (4 - r), so
\* that the reduced axes of the input are those of the normalized tensor;
\* an input of rank 4 is not reshaped and its axes are not shifted.
C21_PrependsAllMissingAxes ==
    pc = "mean_done" =>
        LET shape == MeanParams.ifm.shape
            r == Len(shape)
            shapes == InputReshapes(MeanHwIn)
        IN  IF r < 4
            THEN /\ Len(shapes) >= 1
                 /\ shapes[1] = Repeat(1, 4 - r) \o shape
                 /\ MeanAxis(MeanParams)
                       = [i \in 1..Len(MeanParams.axis) |-> MeanParams.axis[i] + (4 - r)]
            ELSE /\ Len(shapes) = (IF MeanFlattened THEN 1 ELSE 0)
                 /\ MeanAxis(MeanParams) = MeanParams.axis

\* C21 amended: an input of rank 3 is reshaped to one size-1 axis followed by
\* its shape, an input of rank 2 to (1, h, w, 1), one size-1 axis before and
\* one after its shape, and in both cases every reduction axis is shifted by
\* 1, so that each reduced axis of the input is the reduced axis of the
\* normalized tensor and the window has as many elements as the reduced
\* axes of the input; an input of rank 4 is not reshaped for rank and its
\* axes are not shifted.
C21_MeanRankNormalization ==
    pc = "mean_done" =>
        LET shape == MeanParams.ifm.shape
            r == Len(shape)
            shapes == InputReshapes(MeanHwIn)
            axis == MeanAxis(MeanParams)
        IN  /\ MeanWindow[1] * MeanWindow[2] = ExtentProduct(shape, MeanParams.axis, 1)
            /\ IF r < 4
               THEN /\ Len(shapes) = (IF MeanFlattened THEN 2 ELSE 1)
                    /\ shapes[1] = (IF r = 3 THEN <<1>> \o shape ELSE <<1>> \o shape \o <<1>>)
                    /\ axis = [i \in 1..Len(MeanParams.axis) |-> MeanParams.axis[i] + 1]
                    /\ \A i \in 1..Len(axis) : shapes[1][axis[i] + 1] = shape[MeanParams.axis[i] + 1]
               ELSE /\ Len(shapes) = (IF MeanFlattened THEN 1 ELSE 0)
                    /\ axis = MeanParams.axis

\* C21 witness: a rank-2 mean over its first axis alone was legalized with a
\* window of that axis' extent by 1
C21_Witness ==
    /\ pc = "mean_done"
    /\ Len(MeanParams.ifm.shape) = 2
    /\ MeanParams.axis = <<0>>
    /\ MeanParams.ifm.shape = <<2, MaxKernelHeight + 1>>
    /\ InputReshapes(MeanHwIn) = <<(<<1, 2, MaxKernelHeight + 1, 1>>)>>
    /\ MeanWindow = <<2, 1>>

MeanThroughCaseB ==
    /\ pc = "mean_done"
    /\ ~(MeanAxis(MeanParams) = <<1, 2>> /\ MeanParams.keepdims)
    /\ MeanParams.ifm.q_params = MeanParams.ofm.q_params

\* the shape of the tensor the innermost hardware operator receives
MeanHwInShape ==
    IF InputReshapes(MeanHwIn) = <<>> THEN MeanParams.ifm.shape
    ELSE InputReshapes(MeanHwIn)[Len(InputReshapes(MeanHwIn))]

\* the effective window over the tensor the hardware operator receives:
\* its extent on axis 1 if axis 1 is reduced else 1, likewise for axis 2
MeanEffectiveWindow ==
    <<IF 1 \in MeanAxisSet THEN MeanHwInShape[2] ELSE 1,
      IF 2 \in MeanAxisSet THEN MeanHwInShape[3] ELSE 1>>

\* C23: a mean legalized through Case B is exactly one hardware node, an
\* ethosu_pooling of type AVG with ifm_zero_point and ofm_zero_point 0
\* whatever the real common zero-point, ifm_scale and ofm_scale the real
\* (equal) scales, pool_shape the effective window and rounding TRUNCATE.
C23_MeanCaseBPooling ==
    MeanThroughCaseB =>
        /\ CountOps(HwOps, mean_out) = 1
        /\ MeanTop.op = "ethosu_pooling"
        /\ MeanTop.attrs.pooling_type = "AVG"
        /\ MeanTop.attrs.ifm_zero_point = 0
        /\ MeanTop.attrs.ofm_zero_point = 0
        /\ MeanTop.attrs.ifm_scale = MeanParams.ifm.q_params.scale_f32
        /\ MeanTop.attrs.ofm_scale = MeanParams.ofm.q_params.scale_f32
        /\ MeanTop.attrs.ifm_scale = MeanTop.attrs.ofm_scale
        /\ MeanTop.attrs.pool_shape = MeanEffectiveWindow
        /\ MeanTop.attrs.pool_shape[1] * MeanTop.attrs.pool_shape[2]
              = ExtentProduct(MeanParams.ifm.shape, MeanParams.axis, 1)
        /\ MeanTop.attrs.rounding_mode = "TRUNCATE"

\* C23 witness: a mean over the height alone whose input and output both
\* have zero-point 3 became an average pooling with zero-points 0
C23_Witness ==
    /\ MeanThroughCaseB
    /\ MeanParams.ifm.q_params.zero_point = 3
    /\ MeanParams.ofm.q_params.zero_point = 3
    /\ MeanAxisSet = {1}
    /\ MeanTop.op = "ethosu_pooling"
    /\ MeanTop.attrs.ifm_zero_point = 0
    /\ MeanTop.attrs.pool_shape = <<2, 1>>

\* Case C is taken: the Case A test fails and the quantizations differ
MeanThroughCaseC ==
    /\ pc = "mean_done"
    /\ ~(MeanAxis(MeanParams) = <<1, 2>> /\ MeanParams.keepdims)
    /\ MeanParams.ifm.q_params # MeanParams.ofm.q_params

\* C24: a mean legalized through Case C is exactly one hardware node, an
\* ethosu_depthwise_conv2d with an all-ones weight of the window shape,
\* weight scale 1 / (window height * window width), every per-channel bias
\* -(input zero-point) * (window height * window width), ifm_zero_point 0,
\* ofm_zero_point the real output zero-point and rounding NATURAL.
C24_MeanCaseCDepthwise ==
    MeanThroughCaseC =>
        LET window == MeanEffectiveWindow
            size == window[1] * window[2]
            channels == MeanHwInShape[Len(MeanHwInShape)]
        IN  /\ CountOps(HwOps, mean_out) = 1
            /\ MeanTop.op = "ethosu_depthwise_conv2d"
            /\ MeanTop.attrs.kernel_shape = window
            /\ MeanTop.attrs.weight.value = 1
            /\ MeanTop.attrs.weight.shape = <<channels, window[1], window[2], channels>>
            /\ MeanTop.attrs.scale_bias.weight_scales = <<1, size>>
            /\ MeanTop.attrs.scale_bias.biases.shape = <<channels>>
            /\ MeanTop.attrs.scale_bias.biases.value
                  = 0 - MeanParams.ifm.q_params.zero_point * size
            /\ size = ExtentProduct(MeanParams.ifm.shape, MeanParams.axis, 1)
            /\ MeanTop.attrs.ifm_zero_point = 0
            /\ MeanTop.attrs.ofm_zero_point = MeanParams.ofm.q_params.zero_point
            /\ MeanTop.attrs.rounding_mode = "NATURAL"

\* C24 witness: a mean over a 2 x 2 window with input zero-point 3 and
\* output zero-point 0 became a depthwise convolution with biases -12
C24_Witness ==
    /\ MeanThroughCaseC
    /\ MeanParams.ifm.q_params.zero_point = 3
    /\ MeanParams.ofm.q_params.zero_point = 0
    /\ MeanTop.op = "ethosu_depthwise_conv2d"
    /\ MeanTop.attrs.kernel_shape = <<2, 2>>
    /\ MeanTop.attrs.scale_bias.biases.value = -12
    /\ MeanTop.attrs.scale_bias.weight_scales = <<1, 4>>

\* C25: in Case A, with n the element count of the window after any
\* flattening, the multiply step's second-operand scale is 1 / (n - eps)
\* with eps = 1 / (256 * (n + 1)) for even n and 0 for odd n: exactly 1 / n
\* for odd n, strictly greater than 1 / n for even n, and n - eps is never
\* zero.  Scales are fractions <<numerator, denominator>>.
C25_MeanMultiplyScale ==
    MeanThroughCaseA =>
        LET window == MeanTop.args[1].attrs.kernel_shape
            n == window[1] * window[2]
            eps == IF n % 2 = 0 THEN <<1, 256 * (n + 1)>> ELSE <<0, 1>>
            \* n - eps
            diff == <<n * eps[2] - eps[1], eps[2]>>
            scale == MeanTop.attrs.ifm2_scale
        IN  /\ n >= 1
            /\ n = ExtentProduct(MeanParams.ifm.shape, MeanParams.axis, 1)
            /\ diff[1] > 0
            /\ scale = <<diff[2], diff[1]>>
            /\ n % 2 = 1 => scale[1] * n = scale[2]
            /\ n % 2 = 0 => scale[1] * n > scale[2]

\* C25 witness: Case A over a flattened window of 65 * 2 = 130 elements
\* multiplies by a scale above 1 / 130
C25_Witness ==
    /\ MeanThroughCaseA
    /\ MeanTop.args[1].attrs.kernel_shape = <<1, (MaxKernelHeight + 1) * 2>>
    /\ MeanTop.attrs.ifm2_scale[1] * 130 > MeanTop.attrs.ifm2_scale[2]
    /\ MeanTop.attrs.ifm2_scale[2] > 0

\* the positions of the composite call's arguments that are call nodes
CallPositions == {i \in 1..Len(cb_call.args) : IsCall(cb_call.args[i])}

\* the k-th of those positions, in argument order
KthCallPosition(k) ==
    CHOOSE p \in CallPositions : Cardinality({q \in CallPositions : q <= p}) = k

\* C26: ConcatRewriter replaces a concat composite call by exactly one plain
\* concatenate whose inputs are precisely the arguments of the composite
\* call that are call nodes, in their original relative order, every
\* non-call argument dropped, and whose axis is the axis of the composite
\* body's concatenate.
C26_ConcatKeepsCallArguments ==
    CbReturned({"Concat"}) =>
        /\ cb_out.op = "concatenate"
        /\ CountOps({"concatenate"}, cb_out) = 1
        /\ CountOps({"composite"}, cb_out) = 0
        /\ cb_out.attrs.axis = CbParams.axis
        /\ Len(cb_out.args) = 1
        /\ cb_out.args[1].op = "Tuple"
        /\ Len(cb_out.args[1].args) = Cardinality(CallPositions)
        /\ \A k \in 1..Cardinality(CallPositions) :
              cb_out.args[1].args[k] = cb_call.args[KthCallPosition(k)]

\* C26 witness: a concat called on a call, a parameter and another call
\* became the concatenate of the two calls in that order
C26_Witness ==
    /\ CbReturned({"Concat"})
    /\ Len(cb_call.args) = 3
    /\ CallPositions = {1, 3}
    /\ cb_call.args[1] # cb_call.args[3]
    /\ cb_out.args[1].args = <<cb_call.args[1], cb_call.args[3]>>
    /\ cb_out.attrs.axis = 3

\* a reshape or strided_slice call of an element type other than int32
IsGuardedKind(e) == e.op \in {"reshape", "strided_slice"} /\ checked_dtype(e) # "int32"

\* every such call of e lies directly under exactly one ethosu_identity with
\* an empty lookup table; wraps is the number of such identities stacked
\* directly above e
RECURSIVE WrappedOnce(_, _)
WrappedOnce(e, wraps) ==
    /\ IsGuardedKind(e) => wraps = 1
    /\ \A i \in 1..Len(e.args) :
          WrappedOnce(e.args[i],
                      IF e.op = "ethosu_identity" /\ e.attrs.lut = <<>>
                      THEN wraps + 1 ELSE 0)

\* the number of such calls in e
RECURSIVE CountGuardedKind(_)
RECURSIVE SumGuardedKind(_, _)
SumGuardedKind(args, i) ==
    IF i > Len(args) THEN 0 ELSE CountGuardedKind(args[i]) + SumGuardedKind(args, i + 1)
CountGuardedKind(e) == (IF IsGuardedKind(e) THEN 1 ELSE 0) + SumGuardedKind(e.args, 1)

RECURSIVE ShapeSize(_)
ShapeSize(shape) == IF shape = <<>> THEN 1 ELSE Head(shape) * ShapeSize(Tail(shape))

\* two rank-4 shapes broadcast together, and the shape they broadcast to
BroadcastCompatible(s, t) == \A a \in 1..4 : s[a] = t[a] \/ s[a] = 1 \/ t[a] = 1
BroadcastShape(s, t) == [a \in 1..4 |-> Max2(s[a], t[a])]

\* the shapes of the two inputs of the hardware operator
BinHwShape(k) == checked_shape(BinHwOp.args[k])

\* a final reshape was emitted over operands that broadcast together
BinReshapedBack ==
    /\ pc = "binary_done"
    /\ ~IsRaise(bin_out)
    /\ bin_out.op = "reshape"
    /\ BroadcastCompatible(BinHwShape(1), BinHwShape(2))

\* C28 as stated: for every pair of broadcast-compatible operand shapes of
\* ranks 1 to 4 and either value of the reversed-operands flag the final
\* reshape keeps the element count: the hardware op's broadcast output has
\* as many elements as the first operand's original shape.
C28_ReshapeKeepsElementCount ==
    BinReshapedBack =>
        ShapeSize(BroadcastShape(BinHwShape(1), BinHwShape(2)))
            = ShapeSize(bin_out.attrs.newshape)

\* C28 amended: for every pair of operand shapes of ranks 1 to 4 whose second
\* hardware operand broadcasts to the first (the broadcast of the two padded
\* shapes is the padded first), and either value of the flag, the final
\* reshape is to the first operand's original shape and keeps the element
\* count of the hardware op's broadcast output.
C28_ReshapeKeepsCountWhenSecondBroadcasts ==
    (BinReshapedBack /\ BroadcastShape(BinHwShape(1), BinHwShape(2)) = BinHwShape(1)) =>
        /\ bin_out.attrs.newshape = bin_call.attrs.params.operands[BinFirst].shape
        /\ ShapeSize(BroadcastShape(BinHwShape(1), BinHwShape(2)))
              = ShapeSize(bin_out.attrs.newshape)

\* C28 witness: a reversed composite whose first operand (2, 2) takes a
\* broadcast second operand (2) was reshaped back from 4 elements to 4
C28_Witness ==
    /\ BinReshapedBack
    /\ bin_call.attrs.params.reversed_operands
    /\ bin_call.attrs.params.operands[2].shape = <<2, 2>>
    /\ bin_call.attrs.params.operands[1].shape = <<2>>
    /\ BinHwShape(1) = <<1, 1, 2, 2>>
    /\ BinHwShape(2) = <<1, 1, 1, 2>>
    /\ bin_out.attrs.newshape = <<2, 2>>

RECURSIVE Families(_)
Families(e) ==
    (IF e.op = "composite" THEN {e.attrs.family} ELSE {})
        \cup UNION {Families(e.args[i]) : i \in 1..Len(e.args)}

\* C30: the operator-specific legalizers (positions 2 to 16) commute:
\* applied in any permutation, followed by reshape extraction, strided-slice
\* extraction and the no-op guard, they yield the module the code's order
\* yields.
C30_OperatorPassesCommute ==
    pc = "permuted" =>
        /\ LegalizeInOrder(Rewriters, mod_before, 1).error = NoError
        /\ mod = LegalizeInOrder(Rewriters, mod_before, 1).mod

\* C30 witness: a module holding a concat over an add was legalized with the
\* passes in another order than the code's, LegalizeConcat before LegalizeAdd
C30_Witness ==
    /\ pc = "permuted"
    /\ perm_order # Rewriters
    /\ Families(mod_before[1].body) = {"ethos-u.concat", "ethos-u.add"}
    /\ \E i, j \in 1..Len(passes_run) :
          i < j /\ passes_run[i] = "Concat" /\ passes_run[j] = "Add"
    /\ mod # mod_before
    /\ ~ModHasComposite(mod)

====
